---------------------------- MODULE Spec2Model ----------------------------
(***************************************************************************)
(* A model of the vendored Deno std 0.120.0 concurrency toolkit used by    *)
(* the walking skeleton: the HTTP Server with serveTls (http/server.ts),   *)
(* the bounded concurrent mapper pooledMap (async/pool.ts), the            *)
(* multiplexer MuxAsyncIterator (async/mux_async_iterator.ts) and deferred *)
(* (async/deferred.ts).                                                    *)
(*                                                                         *)
(* JavaScript runs every task to its next await without interruption, so   *)
(* one action of the model is one such run: the code between two awaits.   *)
(* The settling of a promise by the environment (an accept, a request      *)
(* handler, a transformation) and the continuation the program runs in     *)
(* response are separate actions, so that other tasks can run in between.  *)
(***************************************************************************)
EXTENDS Integers, Sequences, FiniteSets, Bags, TLC

(***************************************************************************)
(* Bounds of the model.                                                    *)
(***************************************************************************)
\* longest input sequence given to pooledMap
MaxInputs == 4
\* largest pool limit given to pooledMap
MaxPoolLimit == 3
\* longest input sequence, where pooledMap is followed to its end under
\* fairness
MaxLiveInputs == 3
\* what reaches one Server in all: listeners it is given or opens,
\* connections accepted, request events, accept failures on open listeners
MaxArrivals == 4
\* arrivals one Server sees when only its accept loops are followed
MaxAcceptArrivals == 11
\* the same, where the accept loops are followed to their end after close()
MaxCloseArrivals == 5
\* the same, where one request handler never settles
MaxStuckArrivals == 5
\* what reaches one MuxAsyncIterator in all: sources it is given and
\* values its sources yield
MaxMuxArrivals == 5
\* the same, where the multiplexer is followed to its end under fairness
MaxMuxLiveArrivals == 4
\* resolve and reject calls made on one deferred
MaxDeferredCalls == 3

VARIABLES
    \* ---- Server (http/server.ts) ----
    closed,             \* #closed
    listeners,          \* #listeners: the tracked listeners
    httpConnections,    \* #httpConnections: the tracked connections
    lres,               \* lres[l]: the listener resource itself
    entry,              \* entry[l]: the operation that was called with l
    serve,              \* serve[l]: where the serve call on l stands
    acc,                \* acc[l]: the accept() promise the loop awaits
    acceptBackoffDelay, \* acceptBackoffDelay[l] (0 for undefined)
    arrivals,           \* what has reached the Server so far
    cstate,             \* cstate[c]: where the #serveHttp loop of c stands
    via,                \* via[c]: the listener c was accepted on
    nextReq,            \* nextReq[c]: the nextRequest() promise awaited
    cclosed,            \* cclosed[c]: close() was invoked on connection c
    req,                \* req[r]: the #respond dispatch of request event r
    lastClose,          \* how the latest call of close() ended
    tls,                \* the call of serveTls(handler, options), if any
    transientRun,       \* transientRun[l]: transient accept failures in a
                        \* row on l since its last successful accept
    \* ---- pooledMap (async/pool.ts) ----
    poolLimit,      \* the poolLimit argument
    array,          \* the items the source iterable yields, in order
    srcRaises,      \* TRUE when the source raises after its last item
    nextIdx,        \* number of items the for-await loop has pulled
    p,              \* p[i]: state of the promise of transformation i
    settled,        \* the transformations that have settled, in order
    e,              \* e[i]: state of the handle pushed onto executing
    executing,      \* the executing array (indices of handles)
    loop,           \* where the async function of pooledMap is suspended
    awaited,        \* state of the combinator promise the loop awaits
    snapshot,       \* the array elements given to that combinator
    written,        \* chunks written to the writer, not yet read
    output,         \* events the consumer of the iterator has received
    stream,         \* state of the readable side
    \* ---- MuxAsyncIterator (async/mux_async_iterator.ts) ----
    iteratorCount,  \* iteratorCount
    yields,         \* yields: the queued {iterator, value} pairs
    throws,         \* throws: the accumulated failures
    signal,         \* signal: the deferred the iteration sleeps on
    resolving,      \* a signal.resolve() call has not passed its await
    gen,            \* where the generator of iterate() is suspended
    idx,            \* entries of yields the for loop has yielded
    sstate,         \* sstate[s]: where source s stands
    produced,       \* produced[s]: values source s has yielded
    addedAt,        \* addedAt[s]: where the iteration stood at add(s)
    accumulated,    \* failures in throws when the loop raised one
    received,       \* events the consumer of iterate() has received
    \* ---- deferred (async/deferred.ts) ----
    promise,        \* the deferred: its state and the promise itself
    dresolving,     \* resolve(value) calls that have not passed the await
    dcalls,         \* resolve and reject calls made so far
    dawaiting       \* resolve(value) calls whose awaitable value is pending

poolVars == <<poolLimit, array, srcRaises, nextIdx, p, settled, e, executing,
              loop, awaited, snapshot, written, output, stream>>

muxVars == <<iteratorCount, yields, throws, signal, resolving, gen, idx,
             sstate, produced, addedAt, accumulated, received>>

deferredVars == <<promise, dresolving, dcalls, dawaiting>>

tlsVars == <<tls>>

serverVars == <<closed, listeners, httpConnections, lres, entry, serve, acc,
                acceptBackoffDelay, arrivals, cstate, via, nextReq,
                cclosed, req, lastClose, transientRun>>

vars == <<closed, listeners, httpConnections, lres, entry, serve, acc,
          acceptBackoffDelay, arrivals, cstate, via, nextReq,
          cclosed, req, lastClose, transientRun, tls,
          poolLimit, array, srcRaises, nextIdx, p, settled, e, executing,
          loop, awaited, snapshot, written, output, stream,
          iteratorCount, yields, throws, signal, resolving, gen, idx,
          sstate, produced, addedAt, accumulated, received,
          promise, dresolving, dcalls, dawaiting>>

\* everything but the Server
otherVars == <<poolVars, muxVars, deferredVars, tlsVars>>

(***************************************************************************)
(* Helpers on sequences.                                                   *)
(***************************************************************************)
Range(s) == {s[k] : k \in 1..Len(s)}

RECURSIVE SeqToBag(_)
SeqToBag(s) ==
    IF s = <<>> THEN EmptyBag ELSE SetToBag({Head(s)}) (+) SeqToBag(Tail(s))

\* Array.prototype.indexOf: the first position of x in s (0 when absent)
IndexOf(s, x) ==
    IF x \in Range(s) THEN CHOOSE k \in 1..Len(s) :
                               s[k] = x /\ \A j \in 1..(k - 1) : s[j] # x
    ELSE 0

\* Array.prototype.splice(k, 1): s without its k-th element
Splice(s, k) == [j \in 1..(Len(s) - 1) |-> IF j < k THEN s[j] ELSE s[j + 1]]

(***************************************************************************)
(* pooledMap                                                               *)
(***************************************************************************)
Tasks == 1..MaxInputs

\* the arrays given to pooledMap: <<>>, <<3>>, <<3, 4>>, ... (the items are
\* distinct, so that every result names its input)
Arrays == {[k \in 1..n |-> k + 2] : n \in 0..MaxInputs}

\* the user's transformation function, when it succeeds
iteratorFn(item) == item * 10

\* the value transformation i resolves with
Value(i) == iteratorFn(array[i])
\* the reason transformation i rejects with
Reason(i) == 100 + i

ValueChunk(v) == [kind |-> "value", val |-> v, errors |-> <<>>]
CloseChunk == [kind |-> "close", val |-> 0, errors |-> <<>>]
\* new AggregateError(errors, "Threw while mapping.")
AggregateError(errs) == [kind |-> "error", val |-> 0, errors |-> errs]

\* the state of a call of pooledMap before its async function has run
PoolFresh ==
    /\ nextIdx = 0
    /\ p = [i \in Tasks |-> "unstarted"]
    /\ settled = <<>>
    /\ e = [i \in Tasks |-> "none"]
    /\ executing = <<>>
    /\ loop = "forAwait"
    /\ awaited = "none"
    /\ snapshot = <<>>
    /\ written = <<>>
    /\ output = <<>>
    /\ stream = "readable"

\* pooledMap(poolLimit, array, iteratorFn) is called
InitPool ==
    /\ poolLimit \in 0..MaxPoolLimit
    /\ array \in Arrays
    /\ srcRaises \in BOOLEAN
    /\ PoolFresh

\* a call of pooledMap on an empty array, which the Server never makes
PoolUnused ==
    /\ poolLimit = 1
    /\ array = <<>>
    /\ srcRaises = FALSE
    /\ PoolFresh

\* Promise.race(arr): settles like the first member that has settled
RaceOf_FulfilledOnly(arr, es) ==
    IF \E k \in 1..Len(arr) : es[arr[k]] = "fulfilled" THEN "fulfilled"
    ELSE "pending"
RaceOf(arr, es) ==
    IF \E k \in 1..Len(arr) : es[arr[k]] # "pending"
    THEN es[arr[CHOOSE k \in 1..Len(arr) :
                    /\ es[arr[k]] # "pending"
                    /\ \A j \in 1..(k - 1) : es[arr[j]] = "pending"]]
    ELSE "pending"

\* Promise.all(arr): rejected by a rejected member, fulfilled when all are
AllOf_AsAllSettled(arr, es) ==
    IF \A k \in 1..Len(arr) : es[arr[k]] # "pending" THEN "fulfilled"
    ELSE "pending"
AllOf_AsAny(arr, es) ==
    IF \E k \in 1..Len(arr) : es[arr[k]] = "rejected" THEN "rejected"
    ELSE IF arr = <<>> \/ \E k \in 1..Len(arr) : es[arr[k]] = "fulfilled"
         THEN "fulfilled"
    ELSE "pending"
AllOf(arr, es) ==
    IF \E k \in 1..Len(arr) : es[arr[k]] = "rejected" THEN "rejected"
    ELSE IF \A k \in 1..Len(arr) : es[arr[k]] = "fulfilled" THEN "fulfilled"
    ELSE "pending"

\* Promise.allSettled(arr): fulfilled once no member is pending
AllSettledOf_NoWait(arr, es) == "fulfilled"
AllSettledOf(arr, es) ==
    IF \A k \in 1..Len(arr) : es[arr[k]] # "pending" THEN "fulfilled"
    ELSE "pending"

\* the state of the combinator the loop awaits, given the handles' states
Combinator(where, arr, es) ==
    CASE where = "race" -> RaceOf(arr, es)
      [] where = "all" -> AllOf(arr, es)
      [] where = "allSettled" -> AllSettledOf(arr, es)
      [] OTHER -> "none"

\* if (executing.length >= poolLimit)
PoolFull_OffByOne(n, limit) == n > limit
PoolFull(n, limit) == n >= limit

\* the catch block up to its await: Promise.allSettled(executing)
EnterCatch ==
    /\ loop' = "allSettled"
    /\ snapshot' = executing
    /\ awaited' = AllSettledOf(executing, e)

\* One turn of the for-await loop with an item: the transformation is
\* started, its handle pushed, and the loop awaits the race when the pool
\* is full.
StartTransformation ==
    /\ loop = "forAwait"
    /\ nextIdx < Len(array)
    /\ LET i == nextIdx + 1
           exe == Append(executing, i)
           es == [e EXCEPT ![i] = "pending"]
       IN /\ nextIdx' = i
          /\ p' = [p EXCEPT ![i] = "pending"]
          /\ e' = es
          /\ executing' = exe
          /\ IF PoolFull(Len(exe), poolLimit)
             THEN /\ loop' = "race"
                  /\ snapshot' = exe
                  /\ awaited' = RaceOf(exe, es)
             ELSE UNCHANGED <<loop, snapshot, awaited>>
    /\ UNCHANGED <<serverVars, muxVars, deferredVars, tlsVars>>
    /\ UNCHANGED <<poolLimit, array, srcRaises, settled, written,
                   output, stream>>

\* The source is exhausted: await Promise.all(executing)
SourceExhausted ==
    /\ loop = "forAwait"
    /\ nextIdx = Len(array)
    /\ ~srcRaises
    /\ loop' = "all"
    /\ snapshot' = executing
    /\ awaited' = AllOf(executing, e)
    /\ UNCHANGED <<serverVars, muxVars, deferredVars, tlsVars>>
    /\ UNCHANGED <<poolLimit, array, srcRaises, settled, nextIdx, p, e,
                   executing,
                   written, output, stream>>

\* The source raises while being iterated: the catch block is entered
SourceRaises_AsExhausted ==
    /\ loop = "forAwait"
    /\ nextIdx = Len(array)
    /\ srcRaises
    /\ loop' = "all"
    /\ snapshot' = executing
    /\ awaited' = AllOf(executing, e)
    /\ UNCHANGED <<serverVars, muxVars, deferredVars, tlsVars>>
    /\ UNCHANGED <<poolLimit, array, srcRaises, settled, nextIdx, p, e,
                   executing,
                   written, output, stream>>

SourceRaises ==
    /\ loop = "forAwait"
    /\ nextIdx = Len(array)
    /\ srcRaises
    /\ EnterCatch
    /\ UNCHANGED <<serverVars, muxVars, deferredVars, tlsVars>>
    /\ UNCHANGED <<poolLimit, array, srcRaises, settled, nextIdx, p, e,
                   executing,
                   written, output, stream>>

\* The transformation of item i settles (the user's function decides how),
\* which queues the reactions registered on p
Settle(i, ok) ==
    /\ p[i] = "pending"
    /\ p' = [p EXCEPT ![i] = IF ok THEN "fulfilled" ELSE "rejected"]
    /\ settled' = Append(settled, i)
    /\ UNCHANGED <<serverVars, muxVars, deferredVars, tlsVars>>
    /\ UNCHANGED <<poolLimit, array, srcRaises, nextIdx, e, executing, loop,
                   awaited, snapshot, written, output, stream>>

\* writer.write(chunk): queued behind the earlier writes; a write made after
\* the close, or behind the rejected promise that errors the stream, is lost
WriterWrite(w, chunk) ==
    IF stream = "readable" /\ \A k \in 1..Len(w) : w[k].kind = "value"
    THEN Append(w, chunk)
    ELSE w

\* what a fulfilled p does to executing: splice(indexOf(e), 1)
RemoveHandle_Kept(exe, i) == exe
RemoveHandle(exe, i) == Splice(exe, IndexOf(exe, i))

\* the reaction jobs run in the order they were queued: the next one is
\* that of the earliest settled p whose handle has not settled yet
NextReaction_Latest(order, es) ==
    LET waiting == SelectSeq(order, LAMBDA i : es[i] = "pending")
    IN IF waiting = <<>> THEN 0 ELSE waiting[Len(waiting)]
NextReaction(order, es) ==
    LET waiting == SelectSeq(order, LAMBDA i : es[i] = "pending")
    IN IF waiting = <<>> THEN 0 ELSE waiting[1]

\* The reactions registered on p[i] run, in registration order: the write
\* of the value, then the splice that settles the handle e[i].  When p[i]
\* rejected neither callback runs and e[i] rejects, staying in executing.
React(i) ==
    /\ p[i] \in {"fulfilled", "rejected"}
    /\ e[i] = "pending"
    /\ i = NextReaction(settled, e)
    /\ LET es == [e EXCEPT ![i] = p[i]]
       IN /\ e' = es
          /\ IF p[i] = "fulfilled"
             THEN /\ written' = WriterWrite(written, ValueChunk(Value(i)))
                  /\ executing' = RemoveHandle(executing, i)
             ELSE UNCHANGED <<written, executing>>
          /\ awaited' = IF awaited = "pending"
                        THEN Combinator(loop, snapshot, es)
                        ELSE awaited
    /\ UNCHANGED <<serverVars, muxVars, deferredVars, tlsVars>>
    /\ UNCHANGED <<poolLimit, array, srcRaises, settled, nextIdx, p, loop,
                   snapshot, output, stream>>

\* The loop resumes after await Promise.race(executing)
RaceResume ==
    /\ loop = "race"
    /\ awaited \in {"fulfilled", "rejected"}
    /\ IF awaited = "fulfilled"
       THEN /\ loop' = "forAwait"
            /\ awaited' = "none"
            /\ UNCHANGED snapshot
       ELSE EnterCatch
    /\ UNCHANGED <<serverVars, muxVars, deferredVars, tlsVars>>
    /\ UNCHANGED <<poolLimit, array, srcRaises, settled, nextIdx, p, e,
                   executing,
                   written, output, stream>>

\* The function resumes after await Promise.all(executing): writer.close()
\* when it fulfilled, the catch block when it rejected
AllResume ==
    /\ loop = "all"
    /\ awaited \in {"fulfilled", "rejected"}
    /\ IF awaited = "fulfilled"
       THEN /\ loop' = "done"
            /\ awaited' = "none"
            /\ written' = WriterWrite(written, CloseChunk)
            /\ UNCHANGED snapshot
       ELSE /\ EnterCatch
            /\ UNCHANGED written
    /\ UNCHANGED <<serverVars, muxVars, deferredVars, tlsVars>>
    /\ UNCHANGED <<poolLimit, array, srcRaises, settled, nextIdx, p, e,
                   executing,
                   output, stream>>

\* errors.push(result.reason) for every rejected result, in array order
RECURSIVE CollectErrors(_, _)
CollectErrors_FirstOnly(arr, es) ==
    LET rej == SelectSeq(arr, LAMBDA i : es[i] = "rejected")
    IN IF rej = <<>> THEN <<>> ELSE <<Reason(rej[1])>>
CollectErrors(arr, es) ==
    IF arr = <<>> THEN <<>>
    ELSE IF es[Head(arr)] = "rejected"
         THEN <<Reason(Head(arr))>> \o CollectErrors(Tail(arr), es)
         ELSE CollectErrors(Tail(arr), es)

\* The catch block resumes after await Promise.allSettled(executing) and
\* writes the rejected promise carrying the AggregateError
AllSettledResume ==
    /\ loop = "allSettled"
    /\ awaited = "fulfilled"
    /\ loop' = "done"
    /\ awaited' = "none"
    /\ written' = WriterWrite(written, AggregateError(CollectErrors(snapshot, e)))
    /\ UNCHANGED <<serverVars, muxVars, deferredVars, tlsVars>>
    /\ UNCHANGED <<poolLimit, array, srcRaises, settled, nextIdx, p, e,
                   executing,
                   snapshot, output, stream>>

\* The consumer reads the next event of the returned iterator: the
\* transform enqueues an awaited value, a close ends the sequence, and the
\* awaited rejected promise errors the stream.
Read ==
    /\ stream = "readable"
    /\ written # <<>>
    /\ output' = Append(output, Head(written))
    /\ written' = Tail(written)
    /\ stream' = CASE Head(written).kind = "value" -> "readable"
                   [] Head(written).kind = "close" -> "closed"
                   [] Head(written).kind = "error" -> "errored"
    /\ UNCHANGED <<serverVars, muxVars, deferredVars, tlsVars>>
    /\ UNCHANGED <<poolLimit, array, srcRaises, settled, nextIdx, p, e,
                   executing,
                   loop, awaited, snapshot>>

NextPool ==
    \/ StartTransformation
    \/ SourceExhausted
    \/ SourceRaises
    \/ \E i \in Tasks, ok \in BOOLEAN : Settle(i, ok)
    \/ \E i \in Tasks : React(i)
    \/ RaceResume
    \/ AllResume
    \/ AllSettledResume
    \/ Read


(***************************************************************************)
(* deferred                                                                *)
(***************************************************************************)
\* the values resolve is called with, and the reasons reject is called with
DeferredValues == {1, 2}
DeferredReasons == {101, 102}

\* deferred(): state is "pending", and so is the promise (status, outcome)
deferred == [state |-> "pending", status |-> "pending", outcome |-> 0]

\* the resolve and reject functions of the promise: the first call settles
\* it, every later call is ignored
SettlePromise(dfd, how, v) ==
    IF dfd.status = "pending"
    THEN [dfd EXCEPT !.status = how, !.outcome = v]
    ELSE dfd

\* resolve(value) after its await: state = "fulfilled"; resolve(value)
ResolveAfterAwait(dfd, value) ==
    SettlePromise([dfd EXCEPT !.state = "fulfilled"],
                  "fulfilled", value)

\* reject(reason): state = "rejected"; reject(reason)
Reject(dfd, reason) ==
    SettlePromise([dfd EXCEPT !.state = "rejected"],
                  "rejected", reason)

\* a deferred nobody has called yet
InitDeferred ==
    /\ promise = deferred
    /\ dresolving = <<>>
    /\ dcalls = 0
    /\ dawaiting = <<>>

\* resolve(value) is called: the async method runs up to await value
DeferredResolve(value) ==
    /\ dcalls < MaxDeferredCalls
    /\ dcalls' = dcalls + 1
    /\ dresolving' = Append(dresolving,
                            [value |-> value, late |-> promise.state # "pending"])
    /\ UNCHANGED <<promise, dawaiting>>
    /\ UNCHANGED <<serverVars, poolVars, muxVars, tlsVars>>

\* the earliest resolve call resumes after its await
DeferredResolveResumes ==
    /\ dresolving # <<>>
    /\ promise' = ResolveAfterAwait(promise, Head(dresolving).value)
    /\ dresolving' = Tail(dresolving)
    /\ UNCHANGED <<dcalls, dawaiting>>
    /\ UNCHANGED <<serverVars, poolVars, muxVars, tlsVars>>

\* resolve(value) is called with an awaitable that has not settled: the
\* async method stays at await value
DeferredResolveAwaitable(value) ==
    /\ dcalls < MaxDeferredCalls
    /\ dcalls' = dcalls + 1
    /\ dawaiting' = Append(dawaiting,
                           [value |-> value, late |-> promise.state # "pending"])
    /\ UNCHANGED <<promise, dresolving>>
    /\ UNCHANGED <<serverVars, poolVars, muxVars, tlsVars>>

\* the awaitable of the k-th waiting resolve call fulfils: the call is
\* scheduled to resume after its await
AwaitableFulfils(k) ==
    /\ k \in 1..Len(dawaiting)
    /\ dresolving' = Append(dresolving, dawaiting[k])
    /\ dawaiting' = Splice(dawaiting, k)
    /\ UNCHANGED <<promise, dcalls>>
    /\ UNCHANGED <<serverVars, poolVars, muxVars, tlsVars>>

\* the awaitable of the k-th waiting resolve call rejects: await value
\* raises, which ends the call before state and resolve are reached
AwaitableRejects(k) ==
    /\ k \in 1..Len(dawaiting)
    /\ dawaiting' = Splice(dawaiting, k)
    /\ UNCHANGED <<promise, dresolving, dcalls>>
    /\ UNCHANGED <<serverVars, poolVars, muxVars, tlsVars>>

\* reject(reason) is called
DeferredReject(reason) ==
    /\ dcalls < MaxDeferredCalls
    /\ dcalls' = dcalls + 1
    /\ promise' = Reject(promise, reason)
    /\ UNCHANGED <<dresolving, dawaiting>>
    /\ UNCHANGED <<serverVars, poolVars, muxVars, tlsVars>>

NextDeferred ==
    \/ \E value \in DeferredValues : DeferredResolve(value)
    \/ \E value \in DeferredValues : DeferredResolveAwaitable(value)
    \/ \E k \in 1..MaxDeferredCalls : AwaitableFulfils(k)
    \/ \E k \in 1..MaxDeferredCalls : AwaitableRejects(k)
    \/ DeferredResolveResumes
    \/ \E reason \in DeferredReasons : DeferredReject(reason)

(***************************************************************************)
(* MuxAsyncIterator                                                        *)
(***************************************************************************)
Sources == 1..MaxMuxArrivals

\* the k-th value source s yields, and what s fails with
SourceValue(s, k) == s * 10 + k
SourceError(s) == 100 + s

ValueEvent(v) == [kind |-> "value", val |-> v]
ErrorEvent(err) == [kind |-> "error", val |-> err]
DoneEvent == [kind |-> "done", val |-> 0]

\* the sources given and the values yielded so far
RECURSIVE SumUpTo(_, _)
SumUpTo(f, n) == IF n = 0 THEN 0 ELSE f[n] + SumUpTo(f, n - 1)
MuxArrivals ==
    Cardinality({s \in Sources : sstate[s] # "unadded"})
        + SumUpTo(produced, MaxMuxArrivals)

\* new MuxAsyncIterator()
InitMux ==
    /\ iteratorCount = 0
    /\ yields = <<>>
    /\ throws = <<>>
    /\ signal = deferred
    /\ resolving = FALSE
    /\ gen = "suspendedStart"
    /\ idx = 0
    /\ sstate = [s \in Sources |-> "unadded"]
    /\ produced = [s \in Sources |-> 0]
    /\ addedAt = [s \in Sources |-> "never"]
    /\ accumulated = 0
    /\ received = <<>>

\* while (this.iteratorCount > 0)
IteratorsRemain_OffByOne(count) == count > 1
IteratorsRemain(count) == count > 0

\* The head of the while loop of iterate(): the generator sleeps on the
\* signal, or returns and the consumer is told the sequence is done
LoopHead ==
    IF IteratorsRemain(iteratorCount)
    THEN /\ gen' = "awaitSignal"
         /\ UNCHANGED received
    ELSE /\ gen' = "returned"
         /\ received' = Append(received, DoneEvent)

\* what the drain of throws raises: for (const e of this.throws) throw e
Raised(errs) == errs[1]

\* iterate() after its for loop: an accumulated failure is thrown, which
\* ends the generator; otherwise yields is cleared, the signal replaced (a
\* resolve call still in flight belongs to the old signal) and the while
\* loop goes round
AfterForLoop_YieldsKept ==
    IF throws # <<>>
    THEN /\ gen' = "threw"
         /\ received' = Append(received, ErrorEvent(Raised(throws)))
         /\ accumulated' = Len(throws)
         /\ UNCHANGED <<yields, signal, resolving, idx>>
    ELSE /\ signal' = deferred
         /\ resolving' = FALSE
         /\ idx' = 0
         /\ UNCHANGED <<yields, accumulated>>
         /\ LoopHead

AfterForLoop ==
    IF throws # <<>>
    THEN /\ gen' = "threw"
         /\ received' = Append(received, ErrorEvent(Raised(throws)))
         /\ accumulated' = Len(throws)
         /\ UNCHANGED <<yields, signal, resolving, idx>>
    ELSE /\ yields' = <<>>
         /\ signal' = deferred
         /\ resolving' = FALSE
         /\ idx' = 0
         /\ UNCHANGED accumulated
         /\ LoopHead

\* yield value, for the k-th entry of yields
YieldEntry(k) ==
    /\ gen' = "suspendedYield"
    /\ idx' = k
    /\ received' = Append(received, ValueEvent(yields[k].value))
    /\ UNCHANGED <<yields, signal, resolving, accumulated>>

\* for (...; i < this.yields.length; ...) after k entries: the length is
\* read again on every turn
ForLoop_FirstEntryOnly(k) ==
    IF k < 1 /\ k < Len(yields) THEN YieldEntry(k + 1) ELSE AfterForLoop
ForLoop(k) == IF k < Len(yields) THEN YieldEntry(k + 1) ELSE AfterForLoop

\* this.signal.resolve(), up to the await inside resolve
SignalResolveCall ==
    /\ resolving' = TRUE
    /\ UNCHANGED signal

\* add(iterable), before or while the combined sequence is iterated and
\* as long as fewer than budget sources and values have reached the
\* multiplexer: the count goes up and callIteratorNext awaits next()
AddWithin(s, budget) ==
    /\ MuxArrivals < budget
    /\ gen \notin {"returned", "threw"}
    /\ sstate[s] = "unadded"
    /\ \A t \in Sources : t < s => sstate[t] # "unadded"
    /\ iteratorCount' = iteratorCount + 1
    /\ sstate' = [sstate EXCEPT ![s] = "pulling"]
    /\ addedAt' = [addedAt EXCEPT ![s] =
                      IF gen = "suspendedStart" THEN "before"
                      ELSE "during"]
    /\ UNCHANGED <<yields, throws, signal, resolving, gen, idx, produced,
                   accumulated, received>>
    /\ UNCHANGED <<serverVars, poolVars, deferredVars, tlsVars>>

Add(s) == AddWithin(s, MaxMuxArrivals)

\* callIteratorNext resumes with a value of s: it is queued
SourceYieldsWithin_NoSignal(s, budget) ==
    /\ sstate[s] = "pulling"
    /\ MuxArrivals < budget
    /\ produced' = [produced EXCEPT ![s] = @ + 1]
    /\ yields' = Append(yields, [iterator |-> s,
                                 value |-> SourceValue(s, produced[s] + 1)])
    /\ sstate' = [sstate EXCEPT ![s] = "queued"]
    /\ UNCHANGED <<iteratorCount, throws, signal, resolving, gen, idx,
                   addedAt, accumulated, received>>
    /\ UNCHANGED <<serverVars, poolVars, deferredVars, tlsVars>>

SourceYieldsWithin(s, budget) ==
    /\ sstate[s] = "pulling"
    /\ MuxArrivals < budget
    /\ produced' = [produced EXCEPT ![s] = @ + 1]
    /\ yields' = Append(yields, [iterator |-> s,
                                 value |-> SourceValue(s, produced[s] + 1)])
    /\ sstate' = [sstate EXCEPT ![s] = "queued"]
    /\ SignalResolveCall
    /\ UNCHANGED <<iteratorCount, throws, gen, idx, addedAt, accumulated,
                   received>>
    /\ UNCHANGED <<serverVars, poolVars, deferredVars, tlsVars>>

SourceYields(s) == SourceYieldsWithin(s, MaxMuxArrivals)

\* callIteratorNext resumes with done: the count goes down
SourceEnds(s) ==
    /\ sstate[s] = "pulling"
    /\ sstate' = [sstate EXCEPT ![s] = "done"]
    /\ iteratorCount' = iteratorCount - 1
    /\ SignalResolveCall
    /\ UNCHANGED <<yields, throws, gen, idx, produced, addedAt, accumulated,
                   received>>
    /\ UNCHANGED <<serverVars, poolVars, deferredVars, tlsVars>>

\* callIteratorNext catches the failure of next(): it is accumulated
SourceFails_CountsDown(s) ==
    /\ sstate[s] = "pulling"
    /\ sstate' = [sstate EXCEPT ![s] = "failed"]
    /\ throws' = Append(throws, SourceError(s))
    /\ iteratorCount' = iteratorCount - 1
    /\ SignalResolveCall
    /\ UNCHANGED <<yields, gen, idx, produced, addedAt, accumulated,
                   received>>
    /\ UNCHANGED <<serverVars, poolVars, deferredVars, tlsVars>>

SourceFails(s) ==
    /\ sstate[s] = "pulling"
    /\ sstate' = [sstate EXCEPT ![s] = "failed"]
    /\ throws' = Append(throws, SourceError(s))
    /\ SignalResolveCall
    /\ UNCHANGED <<iteratorCount, yields, gen, idx, produced, addedAt,
                   accumulated, received>>
    /\ UNCHANGED <<serverVars, poolVars, deferredVars, tlsVars>>

\* the resolve call on the signal resumes after its await
SignalResolveResumes ==
    /\ resolving
    /\ signal' = ResolveAfterAwait(signal, 0)
    /\ resolving' = FALSE
    /\ UNCHANGED <<iteratorCount, yields, throws, gen, idx, sstate, produced,
                   addedAt, accumulated, received>>
    /\ UNCHANGED <<serverVars, poolVars, deferredVars, tlsVars>>

\* the consumer's first next(): the generator runs to its first await
ConsumerStarts ==
    /\ gen = "suspendedStart"
    /\ LoopHead
    /\ UNCHANGED <<iteratorCount, yields, throws, signal, resolving, idx,
                   sstate, produced, addedAt, accumulated>>
    /\ UNCHANGED <<serverVars, poolVars, deferredVars, tlsVars>>

\* await this.signal resumes: the for loop over yields starts
SignalAwaited ==
    /\ gen = "awaitSignal"
    /\ signal.status = "fulfilled"
    /\ ForLoop(0)
    /\ UNCHANGED <<iteratorCount, throws, sstate, produced, addedAt>>
    /\ UNCHANGED <<serverVars, poolVars, deferredVars, tlsVars>>

\* the consumer's next() after a value: the generator resumes after its
\* yield, calls callIteratorNext on the iterator of the entry and goes on
ConsumerPulls ==
    /\ gen = "suspendedYield"
    /\ sstate' = [sstate EXCEPT ![yields[idx].iterator] = "pulling"]
    /\ ForLoop(idx)
    /\ UNCHANGED <<iteratorCount, throws, produced, addedAt>>
    /\ UNCHANGED <<serverVars, poolVars, deferredVars, tlsVars>>

\* the consumer's next() after the failure: the generator has ended
ConsumerPullsEnded ==
    /\ gen = "threw"
    /\ received[Len(received)].kind = "error"
    /\ received' = Append(received, DoneEvent)
    /\ UNCHANGED <<iteratorCount, yields, throws, signal, resolving, gen,
                   idx, sstate, produced, addedAt, accumulated>>
    /\ UNCHANGED <<serverVars, poolVars, deferredVars, tlsVars>>

NextMux ==
    \/ \E s \in Sources : Add(s)
    \/ \E s \in Sources : SourceYields(s)
    \/ \E s \in Sources : SourceEnds(s)
    \/ \E s \in Sources : SourceFails(s)
    \/ SignalResolveResumes
    \/ ConsumerStarts
    \/ SignalAwaited
    \/ ConsumerPulls
    \/ ConsumerPullsEnded

(***************************************************************************)
(* Server                                                                  *)
(***************************************************************************)
\* a connection needs a listener to arrive on, a request a connection
Listeners == 1..MaxArrivals
Conns == 1..(MaxArrivals - 1)
Requests == 1..(MaxArrivals - 2)

ERROR_SERVER_CLOSED == "Server closed"
HTTP_PORT == 80
HTTPS_PORT == 443
INITIAL_ACCEPT_BACKOFF_DELAY == 5
MAX_ACCEPT_BACKOFF_DELAY == 1000
\* the port of a listener the caller opened and passed to serve
CallerPort == 4505

\* what the handler can raise
Errors == {1}
\* the response of the request handler, when it succeeds
HandlerResponse == 200
\* the response of the error handler for the error it is given
onError(error) == 500 + error

\* the errors accept() can fail with
TransientErrors == {"BadResource", "InvalidData", "UnexpectedEof",
                    "ConnectionReset", "NotConnected"}
AcceptErrors == TransientErrors \cup {"Other"}

NoPromise == [kind |-> "none", id |-> 0]
Pending == [kind |-> "pending", id |-> 0]
FreeRequest == [conn |-> 0, pc |-> "free", raised |-> 0, errArg |-> 0,
                response |-> 0]

InitServer ==
    /\ closed = FALSE
    /\ listeners = {}
    /\ httpConnections = {}
    /\ lres = [l \in Listeners |-> "unopened"]
    /\ entry = [l \in Listeners |-> "none"]
    /\ serve = [l \in Listeners |-> "idle"]
    /\ acc = [l \in Listeners |-> NoPromise]
    /\ acceptBackoffDelay = [l \in Listeners |-> 0]
    /\ arrivals = 0
    /\ cstate = [c \in Conns |-> "free"]
    /\ via = [c \in Conns |-> 0]
    /\ nextReq = [c \in Conns |-> NoPromise]
    /\ cclosed = [c \in Conns |-> FALSE]
    /\ req = [r \in Requests |-> FreeRequest]
    /\ lastClose = "none"
    /\ transientRun = [l \in Listeners |-> 0]

\* get addrs: the address of every tracked listener
Port(l) == CASE entry[l] = "listenAndServe" -> HTTP_PORT
             [] entry[l] = "listenAndServeTls" -> HTTPS_PORT
             [] OTHER -> CallerPort
addrs == {[listener |-> l, port |-> Port(l)] : l \in listeners}

\* #trackListener, #untrackListener, #trackHttpConnection,
\* #untrackHttpConnection
TrackListener(set, l) == set \cup {l}
UntrackListener_Kept(set, l) == set
UntrackListener(set, l) == set \ {l}
TrackHttpConnection(set, c) == set \cup {c}
UntrackHttpConnection_Kept(set, c) == set
UntrackHttpConnection(set, c) == set \ {c}

\* the guard of serve, listenAndServe, listenAndServeTls and close:
\* if (this.#closed) throw new Deno.errors.Http(ERROR_SERVER_CLOSED)
ThrowsServerClosed_Never == FALSE
ThrowsServerClosed == closed

\* while (!this.#closed) of #accept and of #serveHttp
AcceptLoopContinues_Unchecked == TRUE
AcceptLoopContinues == ~closed
ServeHttpLoopContinues_Unchecked == TRUE
ServeHttpLoopContinues == ~closed

\* the error classes #accept backs off on
IsTransient_ResetOnly(error) == error = "ConnectionReset"
IsTransient(error) == error \in TransientErrors

\* the delay #accept sleeps after one more transient failure
NextBackoff_Uncapped(delay) ==
    IF delay = 0 THEN INITIAL_ACCEPT_BACKOFF_DELAY ELSE delay * 2
NextBackoff(delay) ==
    LET doubled == IF delay = 0 THEN INITIAL_ACCEPT_BACKOFF_DELAY
                   ELSE delay * 2
    IN IF doubled >= MAX_ACCEPT_BACKOFF_DELAY THEN MAX_ACCEPT_BACKOFF_DELAY
       ELSE doubled

\* The head of the loop of #accept on l.  Either the loop awaits the next
\* accept(), or it is left and the finally block of serve untracks and
\* closes the listener (an error of close() is swallowed).
AcceptLoopHead_AfterDispatches(l) ==
    IF \E r \in Requests : req[r].pc = "handler"
    THEN /\ serve' = [serve EXCEPT ![l] = "accept"]
         /\ acc' = [acc EXCEPT ![l] = NoPromise]
         /\ UNCHANGED <<listeners, lres>>
    ELSE IF AcceptLoopContinues
    THEN /\ serve' = [serve EXCEPT ![l] = "accept"]
         /\ acc' = [acc EXCEPT ![l] = Pending]
         /\ UNCHANGED <<listeners, lres>>
    ELSE /\ serve' = [serve EXCEPT ![l] = "returned"]
         /\ acc' = [acc EXCEPT ![l] = NoPromise]
         /\ listeners' = UntrackListener(listeners, l)
         /\ lres' = [lres EXCEPT ![l] = "closed"]
AcceptLoopHead(l) ==
    IF AcceptLoopContinues
    THEN /\ serve' = [serve EXCEPT ![l] = "accept"]
         /\ acc' = [acc EXCEPT ![l] = Pending]
         /\ UNCHANGED <<listeners, lres>>
    ELSE /\ serve' = [serve EXCEPT ![l] = "returned"]
         /\ acc' = [acc EXCEPT ![l] = NoPromise]
         /\ listeners' = UntrackListener(listeners, l)
         /\ lres' = [lres EXCEPT ![l] = "closed"]

\* serve(listener), up to the first await of #accept
Serve(l) ==
    IF ThrowsServerClosed
    THEN /\ serve' = [serve EXCEPT ![l] = ERROR_SERVER_CLOSED]
         /\ lres' = [lres EXCEPT ![l] = "open"]
         /\ UNCHANGED <<listeners, acc>>
    ELSE IF AcceptLoopContinues
         THEN /\ listeners' = TrackListener(listeners, l)
              /\ serve' = [serve EXCEPT ![l] = "accept"]
              /\ acc' = [acc EXCEPT ![l] = Pending]
              /\ lres' = [lres EXCEPT ![l] = "open"]
         ELSE /\ listeners' =
                     UntrackListener(TrackListener(listeners, l), l)
              /\ serve' = [serve EXCEPT ![l] = "returned"]
              /\ acc' = [acc EXCEPT ![l] = NoPromise]
              /\ lres' = [lres EXCEPT ![l] = "closed"]

\* The caller opens a listener (Deno.listen) and passes it to serve
CallServe(l) ==
    /\ arrivals < MaxArrivals
    /\ entry[l] = "none"
    /\ serve[l] = "idle"
    /\ \A k \in Listeners : k < l => entry[k] # "none"
    /\ entry' = [entry EXCEPT ![l] = "serve"]
    /\ Serve(l)
    /\ arrivals' = arrivals + 1
    /\ UNCHANGED <<closed, httpConnections, acceptBackoffDelay, cstate, via,
                   nextReq, cclosed, req, lastClose, transientRun>>
    /\ UNCHANGED otherVars

\* listenAndServe() and listenAndServeTls(certFile, keyFile): the guard,
\* then Deno.listen / Deno.listenTls, then serve(listener)
ListenAndServeOf(l, name) ==
    /\ arrivals < MaxArrivals
    /\ entry[l] = "none"
    /\ serve[l] = "idle"
    /\ \A k \in Listeners : k < l => entry[k] # "none"
    /\ entry' = [entry EXCEPT ![l] = name]
    /\ IF ThrowsServerClosed
       THEN /\ serve' = [serve EXCEPT ![l] = ERROR_SERVER_CLOSED]
            /\ UNCHANGED <<listeners, lres, acc>>
       ELSE Serve(l)
    /\ arrivals' = arrivals + 1
    /\ UNCHANGED <<closed, httpConnections, acceptBackoffDelay, cstate, via,
                   nextReq, cclosed, req, lastClose, transientRun>>
    /\ UNCHANGED <<poolVars, muxVars, deferredVars>>

\* called on a Server the caller constructed
ListenAndServe(l, name) == ListenAndServeOf(l, name) /\ UNCHANGED tlsVars

CallListenAndServe(l) == ListenAndServe(l, "listenAndServe")
CallListenAndServeTls(l) == ListenAndServe(l, "listenAndServeTls")

\* this.#listeners.clear() and this.#httpConnections.clear() of close()
ClearListeners(set) == {}
ClearHttpConnections_Kept(set) == set
ClearHttpConnections(set) == {}

\* close()
CallClose ==
    /\ IF ThrowsServerClosed
       THEN /\ lastClose' = ERROR_SERVER_CLOSED
            /\ UNCHANGED <<closed, listeners, httpConnections, lres, cclosed>>
       ELSE /\ lastClose' = "returned"
            /\ closed' = TRUE
            /\ lres' = [l \in Listeners |->
                           IF l \in listeners THEN "closed" ELSE lres[l]]
            /\ listeners' = ClearListeners(listeners)
            /\ cclosed' = [c \in Conns |->
                              IF c \in httpConnections THEN TRUE
                              ELSE cclosed[c]]
            /\ httpConnections' = ClearHttpConnections(httpConnections)
    /\ UNCHANGED <<entry, serve, acc, acceptBackoffDelay, arrivals,
                   cstate, via, nextReq, req, transientRun>>
    /\ UNCHANGED otherVars

\* The accept() awaited on l yields a connection, as long as fewer than
\* budget arrivals have reached the Server; on a listener that has been
\* closed it can only fail, with BadResource
AcceptYieldsConnWithin(l, c, budget) ==
    /\ serve[l] = "accept"
    /\ acc[l] = Pending
    /\ lres[l] = "open"
    /\ arrivals < budget
    /\ cstate[c] = "free"
    /\ \A d \in Conns : d < c => cstate[d] # "free"
    /\ acc' = [acc EXCEPT ![l] = [kind |-> "conn", id |-> c]]
    /\ cstate' = [cstate EXCEPT ![c] = "accepted"]
    /\ via' = [via EXCEPT ![c] = l]
    /\ arrivals' = arrivals + 1
    /\ transientRun' = [transientRun EXCEPT ![l] = 0]
    /\ UNCHANGED <<closed, listeners, httpConnections, lres, entry, serve,
                   acceptBackoffDelay, nextReq, cclosed, req, lastClose>>
    /\ UNCHANGED otherVars

AcceptYieldsConn(l, c) == AcceptYieldsConnWithin(l, c, MaxArrivals)

\* accept() fails and #accept resumes in its catch: a transient error is
\* slept on, any other is thrown through the finally block of serve.  (What
\* the catch does commutes with every step another task can take between
\* the rejection and the resumption, so the two are one step here.)
AcceptFailsWithin(l, error, budget) ==
    /\ serve[l] = "accept"
    /\ acc[l] = Pending
    /\ IF lres[l] = "open"
       THEN /\ arrivals < budget
            /\ arrivals' = arrivals + 1
       ELSE /\ error = "BadResource"
            /\ UNCHANGED arrivals
    /\ acc' = [acc EXCEPT ![l] = NoPromise]
    /\ transientRun' = IF error \in TransientErrors
                       THEN [transientRun EXCEPT ![l] = @ + 1]
                       ELSE transientRun
    /\ IF IsTransient(error)
       THEN /\ acceptBackoffDelay' =
                 [acceptBackoffDelay EXCEPT ![l] = NextBackoff(@)]
            /\ serve' = [serve EXCEPT ![l] = "delay"]
            /\ UNCHANGED <<listeners, lres>>
       ELSE /\ serve' = [serve EXCEPT ![l] = "thrown"]
            /\ listeners' = UntrackListener(listeners, l)
            /\ lres' = [lres EXCEPT ![l] = "closed"]
            /\ UNCHANGED acceptBackoffDelay
    /\ UNCHANGED <<closed, httpConnections, entry, cstate, via, nextReq,
                   cclosed, req, lastClose>>
    /\ UNCHANGED otherVars

AcceptFails(l, error) == AcceptFailsWithin(l, error, MaxArrivals)

\* #closeHttpConn(httpConn): untrack, then close (errors swallowed)
CloseHttpConnTracked_Kept(set, c) == set
CloseHttpConnTracked(set, c) == UntrackHttpConnection(set, c)

\* #accept resumes with a connection and Deno.serveHttp(conn) succeeds: the
\* connection is tracked and #serveHttp runs to its first await, then the
\* accept loop goes round.
AcceptResumeConn_LateConnKept(l) ==
    /\ serve[l] = "accept"
    /\ acc[l].kind = "conn"
    /\ LET c == acc[l].id
           tracked == TrackHttpConnection(httpConnections, c)
       IN IF ServeHttpLoopContinues
          THEN /\ httpConnections' = tracked
               /\ cstate' = [cstate EXCEPT ![c] = "serving"]
               /\ nextReq' = [nextReq EXCEPT ![c] = Pending]
               /\ UNCHANGED cclosed
          ELSE /\ httpConnections' = httpConnections
               /\ cstate' = [cstate EXCEPT ![c] = "skipped"]
               /\ UNCHANGED <<cclosed, nextReq>>
    /\ acceptBackoffDelay' = [acceptBackoffDelay EXCEPT ![l] = 0]
    /\ AcceptLoopHead(l)
    /\ UNCHANGED <<closed, entry, arrivals, via, req, lastClose, transientRun>>
    /\ UNCHANGED otherVars

AcceptResumeConn(l) ==
    /\ serve[l] = "accept"
    /\ acc[l].kind = "conn"
    /\ LET c == acc[l].id
           tracked == TrackHttpConnection(httpConnections, c)
       IN IF ServeHttpLoopContinues
          THEN /\ httpConnections' = tracked
               /\ cstate' = [cstate EXCEPT ![c] = "serving"]
               /\ nextReq' = [nextReq EXCEPT ![c] = Pending]
               /\ UNCHANGED cclosed
          ELSE /\ httpConnections' = CloseHttpConnTracked(tracked, c)
               /\ cstate' = [cstate EXCEPT ![c] = "skipped"]
               /\ cclosed' = [cclosed EXCEPT ![c] = TRUE]
               /\ UNCHANGED nextReq
    /\ acceptBackoffDelay' = [acceptBackoffDelay EXCEPT ![l] = 0]
    /\ AcceptLoopHead(l)
    /\ UNCHANGED <<closed, entry, arrivals, via, req, lastClose, transientRun>>
    /\ UNCHANGED otherVars

\* #accept resumes with a connection and Deno.serveHttp(conn) throws: the
\* connection is dropped and the loop goes round
AcceptResumeUpgradeFails_BacksOff(l) ==
    /\ serve[l] = "accept"
    /\ acc[l].kind = "conn"
    /\ cstate' = [cstate EXCEPT ![acc[l].id] = "abandoned"]
    /\ acceptBackoffDelay' =
          [acceptBackoffDelay EXCEPT ![l] = NextBackoff(@)]
    /\ serve' = [serve EXCEPT ![l] = "delay"]
    /\ acc' = [acc EXCEPT ![l] = NoPromise]
    /\ UNCHANGED <<closed, listeners, httpConnections, lres, entry, arrivals,
                   via, nextReq, cclosed, req, lastClose, transientRun>>
    /\ UNCHANGED otherVars
AcceptResumeUpgradeFails(l) ==
    /\ serve[l] = "accept"
    /\ acc[l].kind = "conn"
    /\ cstate' = [cstate EXCEPT ![acc[l].id] = "abandoned"]
    /\ acceptBackoffDelay' = [acceptBackoffDelay EXCEPT ![l] = 0]
    /\ AcceptLoopHead(l)
    /\ UNCHANGED <<closed, httpConnections, entry, arrivals, via,
                   nextReq, cclosed, req, lastClose, transientRun>>
    /\ UNCHANGED otherVars

\* the delay of the backoff elapses: continue
DelayElapses(l) ==
    /\ serve[l] = "delay"
    /\ AcceptLoopHead(l)
    /\ UNCHANGED <<closed, httpConnections, entry, acceptBackoffDelay,
                   arrivals, cstate, via, nextReq, cclosed, req,
                   lastClose, transientRun>>
    /\ UNCHANGED otherVars

\* The nextRequest() awaited on c yields a request event, which a closed
\* connection no longer does
NextRequestYieldsWithin(c, r, budget) ==
    /\ cstate[c] = "serving"
    /\ nextReq[c] = Pending
    /\ ~cclosed[c]
    /\ arrivals < budget
    /\ req[r].pc = "free"
    /\ \A q \in Requests : q < r => req[q].pc # "free"
    /\ nextReq' = [nextReq EXCEPT ![c] = [kind |-> "request", id |-> r]]
    /\ req' = [req EXCEPT ![r] = [@ EXCEPT !.conn = c, !.pc = "pulled"]]
    /\ arrivals' = arrivals + 1
    /\ UNCHANGED <<closed, listeners, httpConnections, lres, entry, serve,
                   acc, acceptBackoffDelay, cstate, via, cclosed, lastClose,
                   transientRun>>
    /\ UNCHANGED otherVars

NextRequestYields(c, r) == NextRequestYieldsWithin(c, r, MaxArrivals)

\* nextRequest() yields null (how = "null") or fails (how = "error"), and
\* #serveHttp resumes: break, then #closeHttpConn.  (A close of the same
\* connection by another task in between changes nothing, so the two are
\* one step here.)
NextRequestEnds(c, how) ==
    /\ cstate[c] = "serving"
    /\ nextReq[c] = Pending
    /\ nextReq' = [nextReq EXCEPT ![c] = NoPromise]
    /\ cstate' = [cstate EXCEPT ![c] = "exited"]
    /\ httpConnections' = CloseHttpConnTracked(httpConnections, c)
    /\ cclosed' = [cclosed EXCEPT ![c] = TRUE]
    /\ UNCHANGED <<closed, listeners, lres, entry, serve, acc,
                   acceptBackoffDelay, arrivals, via, req, lastClose,
                   transientRun>>
    /\ UNCHANGED otherVars

\* The head of the loop of #serveHttp on c: it awaits the next request, or
\* it is left and the connection is untracked and closed.
ServeHttpLoopHead_Waiting(c) ==
    /\ nextReq' = [nextReq EXCEPT ![c] = NoPromise]
    /\ UNCHANGED <<cstate, httpConnections, cclosed>>
ServeHttpLoopHead(c) ==
    IF ServeHttpLoopContinues
    THEN /\ nextReq' = [nextReq EXCEPT ![c] = Pending]
         /\ UNCHANGED <<cstate, httpConnections, cclosed>>
    ELSE /\ nextReq' = [nextReq EXCEPT ![c] = NoPromise]
         /\ cstate' = [cstate EXCEPT ![c] = "exited"]
         /\ httpConnections' = CloseHttpConnTracked(httpConnections, c)
         /\ cclosed' = [cclosed EXCEPT ![c] = TRUE]

\* #serveHttp resumes with a request event: #respond is called, which
\* calls the handler, and without awaiting it the loop goes round
ServeHttpResumeRequest(c) ==
    /\ cstate[c] = "serving"
    /\ nextReq[c].kind = "request"
    /\ req' = [req EXCEPT ![nextReq[c].id] = [@ EXCEPT !.pc = "handler"]]
    /\ ServeHttpLoopHead(c)
    /\ UNCHANGED <<closed, listeners, lres, entry, serve, acc,
                   acceptBackoffDelay, arrivals, via, lastClose, transientRun>>
    /\ UNCHANGED otherVars

\* #respond: the handler returns its response, which is sent
HandlerReturns(r) ==
    /\ req[r].pc = "handler"
    /\ req' = [req EXCEPT ![r] = [@ EXCEPT !.pc = "respondWith",
                                           !.response = HandlerResponse]]
    /\ UNCHANGED <<closed, listeners, httpConnections, lres, entry, serve,
                   acc, acceptBackoffDelay, arrivals, cstate, via,
                   nextReq, cclosed, lastClose,
                   transientRun>>
    /\ UNCHANGED otherVars

\* catch (error) { response = await this.#onError(error) }: what the error
\* handler is called with
OnErrorArgument_Dropped(error) == 0
OnErrorArgument(error) == error

\* #respond: the handler raises, and the error handler is called
HandlerRaises_RespondsAtOnce(r, error) ==
    /\ req[r].pc = "handler"
    /\ req' = [req EXCEPT ![r] = [@ EXCEPT !.pc = "respondWith",
                                           !.raised = error,
                                           !.errArg = OnErrorArgument(error)]]
    /\ UNCHANGED <<closed, listeners, httpConnections, lres, entry, serve,
                   acc, acceptBackoffDelay, arrivals, cstate, via,
                   nextReq, cclosed, lastClose,
                   transientRun>>
    /\ UNCHANGED otherVars

HandlerRaises(r, error) ==
    /\ req[r].pc = "handler"
    /\ req' = [req EXCEPT ![r] = [@ EXCEPT !.pc = "onError",
                                           !.raised = error,
                                           !.errArg = OnErrorArgument(error)]]
    /\ UNCHANGED <<closed, listeners, httpConnections, lres, entry, serve,
                   acc, acceptBackoffDelay, arrivals, cstate, via,
                   nextReq, cclosed, lastClose,
                   transientRun>>
    /\ UNCHANGED otherVars

\* #respond: the error handler returns its response, which is sent
OnErrorReturns(r) ==
    /\ req[r].pc = "onError"
    /\ req' = [req EXCEPT ![r] = [@ EXCEPT !.pc = "respondWith",
                                           !.response = onError(req[r].errArg)]]
    /\ UNCHANGED <<closed, listeners, httpConnections, lres, entry, serve,
                   acc, acceptBackoffDelay, arrivals, cstate, via,
                   nextReq, cclosed, lastClose,
                   transientRun>>
    /\ UNCHANGED otherVars

\* #respond: the error handler raises too, and #respond rejects with
\* nobody awaiting it
OnErrorRaises_ClosesConn(r) ==
    /\ req[r].pc = "onError"
    /\ req' = [req EXCEPT ![r] = [@ EXCEPT !.pc = "rejected"]]
    /\ httpConnections' = CloseHttpConnTracked(httpConnections, req[r].conn)
    /\ cclosed' = [cclosed EXCEPT ![req[r].conn] = TRUE]
    /\ UNCHANGED <<closed, listeners, lres, entry, serve,
                   acc, acceptBackoffDelay, arrivals, cstate, via,
                   nextReq, lastClose, transientRun>>
    /\ UNCHANGED otherVars

OnErrorRaises(r) ==
    /\ req[r].pc = "onError"
    /\ req' = [req EXCEPT ![r] = [@ EXCEPT !.pc = "rejected"]]
    /\ UNCHANGED <<closed, listeners, httpConnections, lres, entry, serve,
                   acc, acceptBackoffDelay, arrivals, cstate, via,
                   nextReq, cclosed, lastClose,
                   transientRun>>
    /\ UNCHANGED otherVars

\* #respond: respondWith(response) succeeds
RespondWithSucceeds(r) ==
    /\ req[r].pc = "respondWith"
    /\ ~cclosed[req[r].conn]
    /\ req' = [req EXCEPT ![r] = [@ EXCEPT !.pc = "sent"]]
    /\ UNCHANGED <<closed, listeners, httpConnections, lres, entry, serve,
                   acc, acceptBackoffDelay, arrivals, cstate, via,
                   nextReq, cclosed, lastClose,
                   transientRun>>
    /\ UNCHANGED otherVars

\* #respond: respondWith(response) fails, and the connection is closed
RespondWithFails(r) ==
    /\ req[r].pc = "respondWith"
    /\ req' = [req EXCEPT ![r] = [@ EXCEPT !.pc = "sendFailed"]]
    /\ httpConnections' = CloseHttpConnTracked(httpConnections, req[r].conn)
    /\ cclosed' = [cclosed EXCEPT ![req[r].conn] = TRUE]
    /\ UNCHANGED <<closed, listeners, lres, entry, serve,
                   acc, acceptBackoffDelay, arrivals, cstate, via,
                   nextReq, lastClose, transientRun>>
    /\ UNCHANGED otherVars

\* ---- serveTls(handler, options) ----
\* what options.keyFile and options.certFile can hold
FileOptions == {"undefined", "", "file.pem"}
\* !options.keyFile, !options.certFile
Truthy(file) == file \notin {"undefined", ""}

NoError == "none"
KeyFileMissing == "TLS config is given, but 'keyFile' is missing."
CertFileMissing == "TLS config is given, but 'certFile' is missing."

\* the two tests serveTls starts with
ConfigError_KeyOnly(keyFile, certFile) ==
    IF ~Truthy(keyFile) THEN KeyFileMissing ELSE NoError
ConfigError(keyFile, certFile) ==
    IF ~Truthy(keyFile) THEN KeyFileMissing
    ELSE IF ~Truthy(certFile) THEN CertFileMissing
    ELSE NoError

InitTls ==
    tls = [pc |-> "none", keyFile |-> "undefined", certFile |-> "undefined",
           signal |-> FALSE, error |-> NoError, servers |-> 0]

\* serveTls(handler, options): the tests, then new Server(...), then
\* options.signal.onabort is set, then server.listenAndServeTls(certFile,
\* keyFile) up to its first await
ServeTls(keyFile, certFile, withSignal) ==
    /\ tls.pc = "none"
    /\ IF ConfigError(keyFile, certFile) # NoError
       THEN /\ tls' = [pc |-> "thrown", keyFile |-> keyFile,
                       certFile |-> certFile, signal |-> withSignal,
                       error |-> ConfigError(keyFile, certFile),
                       servers |-> 0]
            /\ UNCHANGED serverVars
            /\ UNCHANGED <<poolVars, muxVars, deferredVars>>
       ELSE /\ tls' = [pc |-> "serving", keyFile |-> keyFile,
                       certFile |-> certFile, signal |-> withSignal,
                       error |-> NoError, servers |-> 1]
            /\ ListenAndServeOf(1, "listenAndServeTls")

\* options.signal aborts: onabort calls server.close()
Abort ==
    /\ tls.pc = "serving"
    /\ tls.signal
    /\ CallClose

Next ==
    \/ \E l \in Listeners : CallServe(l)
    \/ \E l \in Listeners : CallListenAndServe(l)
    \/ \E l \in Listeners : CallListenAndServeTls(l)
    \/ CallClose
    \/ \E l \in Listeners, c \in Conns : AcceptYieldsConn(l, c)
    \/ \E l \in Listeners, error \in AcceptErrors : AcceptFails(l, error)
    \/ \E l \in Listeners : AcceptResumeConn(l)
    \/ \E l \in Listeners : AcceptResumeUpgradeFails(l)
    \/ \E l \in Listeners : DelayElapses(l)
    \/ \E c \in Conns, r \in Requests : NextRequestYields(c, r)
    \/ \E c \in Conns, how \in {"null", "error"} : NextRequestEnds(c, how)
    \/ \E c \in Conns : ServeHttpResumeRequest(c)
    \/ \E r \in Requests : HandlerReturns(r)
    \/ \E r \in Requests, error \in Errors : HandlerRaises(r, error)
    \/ \E r \in Requests : OnErrorReturns(r)
    \/ \E r \in Requests : OnErrorRaises(r)
    \/ \E r \in Requests : RespondWithSucceeds(r)
    \/ \E r \in Requests : RespondWithFails(r)

\* The Server, with no transformation running, a multiplexer without
\* sources and a deferred nobody calls
Init == InitServer /\ PoolUnused /\ InitMux /\ InitDeferred /\ InitTls

Spec == Init /\ [][Next]_vars

\* One call of serveTls, and the Server it constructs
NextServeTls ==
    \/ \E keyFile \in FileOptions, certFile \in FileOptions,
          withSignal \in BOOLEAN : ServeTls(keyFile, certFile, withSignal)
    \/ Abort
    \/ \E l \in Listeners, c \in Conns : AcceptYieldsConn(l, c)
    \/ \E l \in Listeners, error \in AcceptErrors : AcceptFails(l, error)
    \/ \E l \in Listeners : AcceptResumeConn(l)
    \/ \E l \in Listeners : AcceptResumeUpgradeFails(l)
    \/ \E l \in Listeners : DelayElapses(l)
    \/ \E c \in Conns, how \in {"null", "error"} : NextRequestEnds(c, how)

SpecServeTls == Init /\ [][NextServeTls]_vars

\* pooledMap, on a Server nobody uses
InitPoolCall == InitServer /\ InitPool /\ InitMux /\ InitDeferred /\ InitTls

SpecPool == InitPoolCall /\ [][NextPool]_vars

\* pooledMap on an array of at most MaxLiveInputs items, with
\* transformations that all settle, microtasks that run and a consumer
\* that keeps reading
InitPoolLive ==
    /\ InitPoolCall
    /\ Len(array) <= MaxLiveInputs

SpecPoolLive ==
    /\ InitPoolLive
    /\ [][NextPool]_vars
    /\ WF_vars(StartTransformation)
    /\ WF_vars(SourceExhausted)
    /\ WF_vars(SourceRaises)
    /\ \A i \in Tasks : WF_vars(\E ok \in BOOLEAN : Settle(i, ok))
    /\ \A i \in Tasks : WF_vars(React(i))
    /\ WF_vars(RaceResume)
    /\ WF_vars(AllResume)
    /\ WF_vars(AllSettledResume)
    /\ WF_vars(Read)

\* MuxAsyncIterator alone
SpecMux == Init /\ [][NextMux]_vars

\* MuxAsyncIterator followed through MaxMuxLiveArrivals arrivals, with a
\* consumer that keeps pulling, sources that settle every next() and
\* microtasks that run
SourceSettles(s) ==
    \/ SourceYieldsWithin(s, MaxMuxLiveArrivals)
    \/ SourceEnds(s)
    \/ SourceFails(s)

NextMuxLive ==
    \/ \E s \in Sources : AddWithin(s, MaxMuxLiveArrivals)
    \/ \E s \in Sources : SourceSettles(s)
    \/ SignalResolveResumes
    \/ ConsumerStarts
    \/ SignalAwaited
    \/ ConsumerPulls
    \/ ConsumerPullsEnded

SpecMuxLive ==
    /\ Init
    /\ [][NextMuxLive]_vars
    /\ WF_vars(ConsumerStarts)
    /\ WF_vars(ConsumerPulls)
    /\ WF_vars(SignalAwaited)
    /\ WF_vars(SignalResolveResumes)
    /\ \A s \in Sources : WF_vars(SourceSettles(s))

\* deferred alone
SpecDeferred == Init /\ [][NextDeferred]_vars

\* the deferred with microtasks that run and awaitables that settle
SpecDeferredLive ==
    /\ Init
    /\ [][NextDeferred]_vars
    /\ WF_vars(DeferredResolveResumes)
    /\ \A k \in 1..MaxDeferredCalls :
           WF_vars(AwaitableFulfils(k) \/ AwaitableRejects(k))

\* The accept loops alone, of at most two listeners, followed through
\* MaxAcceptArrivals arrivals
NextAccept ==
    \/ \E l \in 1..2 : CallServe(l)
    \/ CallClose
    \/ \E l \in Listeners, c \in Conns :
          AcceptYieldsConnWithin(l, c, MaxAcceptArrivals)
    \/ \E l \in Listeners, error \in AcceptErrors :
          AcceptFailsWithin(l, error, MaxAcceptArrivals)
    \/ \E l \in Listeners : AcceptResumeConn(l)
    \/ \E l \in Listeners : AcceptResumeUpgradeFails(l)
    \/ \E l \in Listeners : DelayElapses(l)

SpecAccept == Init /\ [][NextAccept]_vars

\* The accept loops followed through MaxCloseArrivals arrivals, where an
\* accept() pending on a closed listener fails, the continuation of a
\* settled accept() runs and the timer of a backoff delay fires
AcceptOnClosedFails(l) ==
    /\ lres[l] = "closed"
    /\ AcceptFailsWithin(l, "BadResource", MaxCloseArrivals)

AcceptResumes(l) == AcceptResumeConn(l) \/ AcceptResumeUpgradeFails(l)

NextCloseLive ==
    \/ \E l \in 1..2 : CallServe(l)
    \/ CallClose
    \/ \E l \in Listeners, c \in Conns :
          AcceptYieldsConnWithin(l, c, MaxCloseArrivals)
    \/ \E l \in Listeners, error \in AcceptErrors :
          AcceptFailsWithin(l, error, MaxCloseArrivals)
    \/ \E l \in Listeners : AcceptResumeConn(l)
    \/ \E l \in Listeners : AcceptResumeUpgradeFails(l)
    \/ \E l \in Listeners : DelayElapses(l)

SpecCloseLive ==
    /\ Init
    /\ [][NextCloseLive]_vars
    /\ \A l \in Listeners : WF_vars(AcceptOnClosedFails(l))
    /\ \A l \in Listeners : WF_vars(AcceptResumes(l))
    /\ \A l \in Listeners : WF_vars(DelayElapses(l))

\* The Server with one listener, given to serve: the dispatch of the
\* requests of its connections, under every interleaving with close()
NextRespond ==
    \/ CallServe(1)
    \/ CallClose
    \/ \E l \in Listeners, c \in Conns : AcceptYieldsConn(l, c)
    \/ \E l \in Listeners, error \in AcceptErrors : AcceptFails(l, error)
    \/ \E l \in Listeners : AcceptResumeConn(l)
    \/ \E l \in Listeners : AcceptResumeUpgradeFails(l)
    \/ \E l \in Listeners : DelayElapses(l)
    \/ \E c \in Conns, r \in Requests : NextRequestYields(c, r)
    \/ \E c \in Conns, how \in {"null", "error"} : NextRequestEnds(c, how)
    \/ \E c \in Conns : ServeHttpResumeRequest(c)
    \/ \E r \in Requests : HandlerReturns(r)
    \/ \E r \in Requests, error \in Errors : HandlerRaises(r, error)
    \/ \E r \in Requests : OnErrorReturns(r)
    \/ \E r \in Requests : OnErrorRaises(r)
    \/ \E r \in Requests : RespondWithSucceeds(r)
    \/ \E r \in Requests : RespondWithFails(r)

SpecRespond == Init /\ [][NextRespond]_vars

\* One listener followed through MaxStuckArrivals arrivals on a Server
\* that is not closed, where the handler of the first request never
\* settles, every other handler and every error handler settles, every
\* respondWith completes, the continuation of a settled await runs and the
\* timer of a backoff delay fires
StuckRequest == 1

HandlerSettles(r) ==
    HandlerReturns(r) \/ \E error \in Errors : HandlerRaises(r, error)
OnErrorSettles(r) == OnErrorReturns(r) \/ OnErrorRaises(r)
RespondWithSettles(r) == RespondWithSucceeds(r) \/ RespondWithFails(r)

NextStuck ==
    \/ CallServe(1)
    \/ \E l \in Listeners, c \in Conns :
          AcceptYieldsConnWithin(l, c, MaxStuckArrivals)
    \/ \E l \in Listeners, error \in AcceptErrors :
          AcceptFailsWithin(l, error, MaxStuckArrivals)
    \/ \E l \in Listeners : AcceptResumeConn(l)
    \/ \E l \in Listeners : AcceptResumeUpgradeFails(l)
    \/ \E l \in Listeners : DelayElapses(l)
    \/ \E c \in Conns, r \in Requests :
          NextRequestYieldsWithin(c, r, MaxStuckArrivals)
    \/ \E c \in Conns, how \in {"null", "error"} : NextRequestEnds(c, how)
    \/ \E c \in Conns : ServeHttpResumeRequest(c)
    \/ \E r \in Requests \ {StuckRequest} : HandlerReturns(r)
    \/ \E r \in Requests \ {StuckRequest}, error \in Errors :
          HandlerRaises(r, error)
    \/ \E r \in Requests : OnErrorReturns(r)
    \/ \E r \in Requests : OnErrorRaises(r)
    \/ \E r \in Requests : RespondWithSucceeds(r)
    \/ \E r \in Requests : RespondWithFails(r)

SpecStuck ==
    /\ Init
    /\ [][NextStuck]_vars
    /\ \A l \in Listeners : WF_vars(AcceptResumes(l))
    /\ \A l \in Listeners : WF_vars(DelayElapses(l))
    /\ \A c \in Conns : WF_vars(ServeHttpResumeRequest(c))
    /\ \A r \in Requests \ {StuckRequest} : WF_vars(HandlerSettles(r))
    /\ \A r \in Requests : WF_vars(OnErrorSettles(r))
    /\ \A r \in Requests : WF_vars(RespondWithSettles(r))

(***************************************************************************)
(* Properties of the Server                                                *)
(***************************************************************************)
\* C1: once close() has been called the closed flag stays true and, in
\* every later state under any interleaving with the accept loops, the
\* connection loops and the dispatches in flight, the tracked-listener set
\* and the tracked-connection set are empty, so addrs is empty.
C1_ClosedStaysReleased ==
    [][/\ closed => closed'
       /\ closed' => /\ listeners' = {}
                     /\ httpConnections' = {}
                     /\ addrs' = {}]_vars

\* an accept completed around close(): its connection went through
\* #accept after the Server was closed
C1_Witness ==
    /\ closed
    /\ \E c \in Conns : cstate[c] = "skipped" /\ cclosed[c]
    /\ \E r \in Requests : req[r].pc \in {"handler", "respondWith"}

\* C2: serve(listener), listenAndServe(), listenAndServeTls() and close()
\* on a closed Server fail with "Server closed", leave the tracked sets
\* unchanged and, for the listenAndServe variants, open no listener; a
\* second close() is an error.
C2_ClosedServerRefuses ==
    [][closed =>
         /\ \A l \in Listeners :
               (entry[l] = "none" /\ entry'[l] # "none") =>
                   /\ serve'[l] = ERROR_SERVER_CLOSED
                   /\ listeners' = listeners
                   /\ httpConnections' = httpConnections
                   /\ entry'[l] \in {"listenAndServe", "listenAndServeTls"}
                         => lres'[l] = "unopened"
         /\ lastClose' # lastClose =>
               /\ lastClose' = ERROR_SERVER_CLOSED
               /\ closed'
               /\ listeners' = listeners
               /\ httpConnections' = httpConnections]_vars

C2_Witness ==
    /\ closed
    /\ lastClose = ERROR_SERVER_CLOSED
    /\ \A name \in {"serve", "listenAndServe", "listenAndServeTls"} :
          \E l \in Listeners :
              entry[l] = name /\ serve[l] = ERROR_SERVER_CLOSED

\* C3: every call of serve(listener) has closed the listener it was given
\* by the time the call completes, on every exit path.
C3_ServeAlwaysClosesListener ==
    \A l \in Listeners :
        (entry[l] = "serve"
           /\ serve[l] \in {"returned", "thrown", ERROR_SERVER_CLOSED})
        => lres[l] = "closed"

\* C4: when the request handler raises, the error handler is invoked with
\* the raised value and its response is sent with respondWith for that
\* request; the failure by itself does not close or untrack the connection,
\* whose loop keeps pulling, nor touch the accept loops and the other
\* connections.
C4_HandlerFailureIsAnswered ==
    [][/\ \A r \in Requests :
             req'[r].raised # 0 =>
                /\ req'[r].errArg = req'[r].raised
                /\ req'[r].pc \in {"onError", "respondWith", "sent",
                                   "sendFailed", "rejected"}
                /\ req'[r].pc \in {"respondWith", "sent", "sendFailed"}
                      => req'[r].response = onError(req'[r].raised)
       /\ \A r \in Requests :
             (req[r].pc = "handler" /\ req'[r].pc = "onError") =>
                /\ req'[r].raised # 0
                /\ UNCHANGED <<closed, listeners, httpConnections, lres,
                               serve, acc, cstate, nextReq, cclosed>>]_vars

\* a handler failure was answered with the error handler's response, and
\* the same connection, still tracked and open, served a later request
C4_Witness ==
    \E r1, r2 \in Requests :
        /\ r1 < r2
        /\ req[r1].raised # 0
        /\ req[r1].pc = "sent"
        /\ req[r1].response = onError(req[r1].raised)
        /\ req[r2].conn = req[r1].conn
        /\ req[r2].pc = "sent"
        /\ req[r2].raised = 0
        /\ req[r1].conn \in httpConnections
        /\ ~cclosed[req[r1].conn]
        /\ nextReq[req[r1].conn] = Pending
        /\ serve[via[req[r1].conn]] = "accept"

\* C18: the delay slept after the k-th transient accept failure in a row
\* since the last successful accept (or since the loop started) is
\* min(5 * 2^(k-1), 1000) milliseconds; a successful accept starts the
\* count again, so that the next transient failure sleeps 5 ms.
C18_BackoffDoublesToCap ==
    \A l \in Listeners :
        serve[l] = "delay" =>
            /\ transientRun[l] >= 1
            /\ acceptBackoffDelay[l] =
                  IF 5 * 2^(transientRun[l] - 1) < 1000
                  THEN 5 * 2^(transientRun[l] - 1)
                  ELSE 1000

\* the cap was reached and slept on more than once
C18_Witness ==
    \E l \in Listeners :
        /\ serve[l] = "delay"
        /\ transientRun[l] = 10
        /\ acceptBackoffDelay[l] = 1000

\* a failure after a successful accept that followed failures
C18_WitnessReset ==
    \E l \in Listeners, c \in Conns :
        /\ serve[l] = "delay"
        /\ via[c] = l
        /\ transientRun[l] = 1
        /\ arrivals >= 5

\* C19: while the Server is not closed, a transient accept failure never
\* ends the accept loop and never reaches the caller of serve, however many
\* occur in a row: the loop sleeps, then awaits accept() again.
C19_TransientFailureRetried ==
    [][\A l \in Listeners :
          /\ (/\ ~closed
              /\ acc[l] = Pending
              /\ acc'[l] = NoPromise
              /\ transientRun'[l] = transientRun[l] + 1)
             => /\ serve'[l] = "delay"
                /\ listeners' = listeners
                /\ lres'[l] = lres[l]
          /\ (~closed /\ serve[l] = "delay" /\ serve'[l] # "delay")
             => /\ serve'[l] = "accept"
                /\ acc'[l] = Pending
                /\ listeners' = listeners
                /\ lres'[l] = lres[l]]_vars

\* the loop awaits accept() again after ten failures in a row
C19_Witness ==
    \E l \in Listeners :
        /\ ~closed
        /\ serve[l] = "accept"
        /\ acc[l] = Pending
        /\ l \in listeners
        /\ transientRun[l] = 10

\* C20: an accept failure that is not transient ends that accept loop and
\* reaches the caller of serve, with the listener untracked and closed;
\* the accept loops of the other listeners are left as they are.
C20_FatalFailureEndsOneLoop ==
    [][\A l \in Listeners :
          (/\ serve[l] = "accept"
           /\ acc[l] = Pending
           /\ acc'[l] = NoPromise
           /\ transientRun'[l] = transientRun[l])
          => /\ serve'[l] = "thrown"
             /\ l \notin listeners'
             /\ lres'[l] = "closed"
             /\ \A k \in Listeners \ {l} :
                   /\ serve'[k] = serve[k]
                   /\ acc'[k] = acc[k]
                   /\ lres'[k] = lres[k]
                   /\ k \in listeners' <=> k \in listeners]_vars

\* one loop ended with the failure and the other went on to accept a
\* connection
C20_Witness ==
    \E l, k \in Listeners, c \in Conns :
        /\ serve[l] = "thrown"
        /\ lres[l] = "closed"
        /\ l \notin listeners
        /\ k \in listeners
        /\ serve[k] = "accept"
        /\ via[c] = k
        /\ cstate[c] = "serving"
        /\ arrivals >= 4

\* C21: when respondWith fails for a request, its connection is removed
\* from the tracked set and closed in that step; #respond ends normally, so
\* the failure reaches neither the error handler nor any accept loop nor a
\* caller of serve, and no other dispatch is touched.
C21_SendFailureClosesConnection ==
    [][\A r \in Requests :
          (/\ req[r].pc = "respondWith"
           /\ req'[r].pc \notin {"respondWith", "sent"})
          => /\ req'[r].pc = "sendFailed"
             /\ req[r].conn \notin httpConnections'
             /\ cclosed'[req[r].conn]
             /\ req'[r].raised = req[r].raised
             /\ req'[r].errArg = req[r].errArg
             /\ \A q \in Requests \ {r} : req'[q] = req[q]
             /\ \A c \in Conns \ {req[r].conn} :
                   /\ cclosed'[c] = cclosed[c]
                   /\ c \in httpConnections' <=> c \in httpConnections
             /\ UNCHANGED <<closed, listeners, lres, serve, acc,
                            acceptBackoffDelay, cstate, nextReq>>]_vars

\* a send failed on a connection that was tracked and open until then,
\* while the accept loop it came through still awaits accept()
C21_Witness ==
    \E r \in Requests :
        /\ req[r].pc = "sendFailed"
        /\ ~closed
        /\ cclosed[req[r].conn]
        /\ req[r].conn \notin httpConnections
        /\ cstate[req[r].conn] = "serving"
        /\ serve[via[req[r].conn]] = "accept"
        /\ acc[via[req[r].conn]] = Pending

\* C22: when the nextRequest() a connection's loop awaits fails or yields
\* null, the loop exits and the connection is untracked and closed in that
\* step; a connection whose loop has exited is never tracked, so once every
\* accepted connection has ended the tracked-connection set is empty.
C22_EndedConnectionReleased ==
    /\ [][\A c \in Conns :
             (/\ cstate[c] = "serving"
              /\ nextReq[c] = Pending
              /\ nextReq'[c] = NoPromise)
             => /\ cstate'[c] = "exited"
                /\ c \notin httpConnections'
                /\ cclosed'[c]]_vars
    /\ [](\A c \in Conns :
             cstate[c] = "exited" => c \notin httpConnections /\ cclosed[c])
    /\ []((\A c \in Conns : cstate[c] \in {"free", "exited"})
             => httpConnections = {})

\* two connections were served and ended, on a Server that is still open
C22_Witness ==
    \E c1, c2 \in Conns :
        /\ c1 # c2
        /\ ~closed
        /\ cstate[c1] = "exited"
        /\ cstate[c2] = "exited"
        /\ \A c \in Conns : cstate[c] \in {"free", "exited"}
        /\ \E r \in Requests : req[r].conn = c1 /\ req[r].pc = "sent"
        /\ httpConnections = {}

\* C23: once the Server is closed no accept loop awaits a new accept() on
\* any listener, and every serve call that is still running completes,
\* given that an accept() pending on a closed listener settles.
C23_CloseStopsAcceptLoops ==
    /\ [][closed =>
             \A l \in Listeners : acc'[l] = Pending => acc[l] = Pending]_vars
    /\ \A l \in Listeners :
          (closed /\ serve[l] \in {"accept", "delay"})
             ~> (serve[l] \in {"returned", "thrown"})

\* close() was called with two serve calls running; the accept() of one
\* then failed on the closed listener, that of the other had completed
\* with a connection, and both calls have returned
C23_Witness ==
    \E l, k \in Listeners, c \in Conns :
        /\ closed
        /\ lastClose = "returned"
        /\ serve[l] = "returned"
        /\ transientRun[l] = 1
        /\ serve[k] = "returned"
        /\ via[c] = k
        /\ cstate[c] = "skipped"
        /\ arrivals = 3

\* C24: a call of serveTls whose options lack keyFile, or lack certFile,
\* fails with the configuration error that names the missing item, and
\* has constructed no Server and opened no listener: nothing is opened or
\* tracked, then or later.
C24_MissingTlsFileRefused ==
    tls.pc # "none" =>
        /\ ~Truthy(tls.keyFile) => tls.error = KeyFileMissing
        /\ (Truthy(tls.keyFile) /\ ~Truthy(tls.certFile))
              => tls.error = CertFileMissing
        /\ (~Truthy(tls.keyFile) \/ ~Truthy(tls.certFile)) =>
              /\ tls.pc = "thrown"
              /\ tls.servers = 0
              /\ listeners = {}
              /\ httpConnections = {}
              /\ \A l \in Listeners :
                    /\ lres[l] = "unopened"
                    /\ entry[l] = "none"
                    /\ serve[l] = "idle"

\* a call with a key file and an empty certFile was refused
C24_Witness ==
    /\ tls.pc = "thrown"
    /\ Truthy(tls.keyFile)
    /\ tls.certFile = ""
    /\ tls.error = CertFileMissing
    /\ \A l \in Listeners : lres[l] = "unopened"

\* C26: in the step in which a connection's loop hands a request event to
\* #respond, with the dispatch only started, the loop already awaits the
\* next request event (the Server not being closed); so several requests
\* of one connection are in flight together and a later one can be
\* answered first.
C26_NextRequestPulledAtOnce ==
    [][\A c \in Conns :
          (/\ cstate[c] = "serving"
           /\ nextReq[c].kind = "request"
           /\ req[nextReq[c].id].pc = "pulled"
           /\ req'[nextReq[c].id].pc # "pulled")
          => /\ req'[nextReq[c].id].pc = "handler"
             /\ ~closed => /\ nextReq'[c] = Pending
                           /\ cstate'[c] = "serving"]_vars

\* the second request of a connection has been answered while the
\* handler of the first has not settled
C26_Witness ==
    \E r1, r2 \in Requests :
        /\ r1 < r2
        /\ req[r1].conn = req[r2].conn
        /\ req[r1].pc = "handler"
        /\ req[r2].pc = "sent"

\* C27: while the handler of one request never settles, an accept loop
\* that has accepted a connection goes on to await the next accept(), and
\* a request pulled on another connection is dispatched and its dispatch
\* ends: the response is sent, unless the send fails or the error handler
\* raises.
C27_StuckHandlerBlocksNoOther ==
    /\ \A l \in Listeners :
          (req[StuckRequest].pc = "handler" /\ acc[l].kind = "conn")
             ~> (req[StuckRequest].pc = "handler" /\ acc[l] = Pending)
    /\ \A r \in Requests \ {StuckRequest} :
          (/\ req[StuckRequest].pc = "handler"
           /\ req[r].pc = "pulled"
           /\ req[r].conn # req[StuckRequest].conn)
             ~> (/\ req[StuckRequest].pc = "handler"
                 /\ req[r].pc \in {"sent", "sendFailed", "rejected"})

\* with the first handler still pending, a connection accepted later had
\* its request answered and the loop awaits another accept()
C27_Witness ==
    \E r \in Requests \ {StuckRequest}, l \in Listeners :
        /\ req[StuckRequest].pc = "handler"
        /\ req[r].conn # req[StuckRequest].conn
        /\ req[r].pc = "sent"
        /\ req[r].response = HandlerResponse
        /\ serve[l] = "accept"
        /\ acc[l] = Pending
        /\ arrivals = 5

\* C28: when the upgrade of an accepted connection fails, the connection
\* is not tracked, then or later, no backoff delay is slept or kept, and
\* the accept loop awaits the next accept() in the same step (or, the
\* Server being closed, returns).
C28_UpgradeFailureSkipsConnection ==
    /\ [][\A l \in Listeners :
             (acc[l].kind = "conn" /\ cstate'[acc[l].id] = "abandoned")
             => /\ httpConnections' = httpConnections
                /\ acceptBackoffDelay'[l] = 0
                /\ serve'[l] # "delay"
                /\ ~closed => serve'[l] = "accept" /\ acc'[l] = Pending
                /\ closed => serve'[l] = "returned"]_vars
    /\ [](\A c \in Conns :
             cstate[c] = "abandoned" => c \notin httpConnections)

\* an upgrade failed on an open Server after a connection had been served
\* on the same listener, and the loop awaits accept() again
C28_Witness ==
    \E l \in Listeners, c, d \in Conns :
        /\ ~closed
        /\ via[c] = l
        /\ cstate[c] = "serving"
        /\ via[d] = l
        /\ cstate[d] = "abandoned"
        /\ httpConnections = {c}
        /\ serve[l] = "accept"
        /\ acc[l] = Pending
        /\ acceptBackoffDelay[l] = 0

\* C29: once a serve call has ended through a failure of its accept loop,
\* neither its listener nor any connection accepted through that listener
\* is in a tracked set.
C29_LoopExitTearsDown ==
    \A l \in Listeners :
        serve[l] = "thrown" =>
            /\ l \notin listeners
            /\ \A c \in Conns : via[c] = l => c \notin httpConnections

\* C30: a tracked listener was given to serve (or opened by
\* listenAndServe) and is open, a tracked connection was upgraded and has
\* not been closed; a resource enters its set only on registration, which
\* happens once, and leaves it in the step in which the Server closes it,
\* as every close by the Server of a tracked resource removes it.
C30_TrackedIffRegisteredAndOpen ==
    /\ [](\A l \in listeners : entry[l] # "none" /\ lres[l] = "open")
    /\ [](\A c \in httpConnections : cstate[c] = "serving" /\ ~cclosed[c])
    /\ [][/\ (listeners' # listeners \/ lres' # lres) =>
              \A l \in Listeners :
                 /\ (l \notin listeners /\ l \in listeners')
                       => entry[l] = "none" /\ entry'[l] # "none"
                 /\ (l \in listeners /\ l \notin listeners')
                       => lres'[l] = "closed"
                 /\ (l \in listeners /\ lres'[l] = "closed")
                       => l \notin listeners'
          /\ (httpConnections' # httpConnections \/ cclosed' # cclosed) =>
              \A c \in Conns :
                 /\ (c \notin httpConnections /\ c \in httpConnections')
                       => cstate[c] = "accepted" /\ cstate'[c] = "serving"
                 /\ (c \in httpConnections /\ c \notin httpConnections')
                       => cclosed'[c]
                 /\ (c \in httpConnections /\ cclosed'[c])
                       => c \notin httpConnections'
          /\ cstate' # cstate =>
              \A c \in Conns :
                 cstate'[c] = "accepted" => cstate[c] \in {"free", "accepted"}
          ]_vars

\* close() released a listener and a connection whose loops have not
\* resumed yet, after another connection had ended by itself
C30_Witness ==
    \E l \in Listeners, c, d \in Conns :
        /\ closed
        /\ lastClose = "returned"
        /\ listeners = {}
        /\ httpConnections = {}
        /\ serve[l] = "accept"
        /\ lres[l] = "closed"
        /\ cstate[c] = "exited"
        /\ cstate[d] = "serving"
        /\ cclosed[d]

\* no accept loop and no connection loop is running or about to resume
LoopsExited ==
    /\ \A l \in Listeners : serve[l] \notin {"accept", "delay"}
    /\ \A c \in Conns : cstate[c] \notin {"accepted", "serving"}

\* the connections Deno.serveHttp has upgraded
Upgraded == {c \in Conns : cstate[c] \in {"serving", "skipped", "exited"}}

\* C38: once the Server is closed and its accept loops and connection
\* loops have exited, every connection it ever upgraded has been closed
\* and none is tracked, also when the accept of the connection completed
\* while close() was called.
C38_LateConnectionNotLeaked ==
    (closed /\ LoopsExited) =>
        /\ httpConnections = {}
        /\ \A c \in Upgraded : cclosed[c]

\* the loops have exited on a closed Server; one connection was upgraded
\* after close() and another was served before it
C38_Witness ==
    /\ closed
    /\ LoopsExited
    /\ \E c, d \in Conns : cstate[c] = "skipped" /\ cstate[d] = "exited"

\* respondWith has been invoked for the request event r
Responded(r) == req[r].pc \in {"respondWith", "sent", "sendFailed"}

\* C39: respondWith is invoked at most once for a request event, when the
\* handler has settled with the handler's response if the handler
\* succeeded, and otherwise when the error handler has settled with the
\* error handler's response; it is not invoked a second time.
C39_RespondWithAtMostOnce ==
    [][\A r \in Requests :
          /\ (~Responded(r) /\ req'[r].pc \in {"respondWith", "sent",
                                                "sendFailed"}) =>
                 /\ req[r].pc \in {"handler", "onError"}
                 /\ req'[r].pc = "respondWith"
                 /\ req'[r].response = IF req[r].pc = "handler"
                                       THEN HandlerResponse
                                       ELSE onError(req[r].raised)
                 /\ req[r].pc = "handler" <=> req'[r].raised = 0
          /\ Responded(r) =>
                 /\ req'[r].pc \in {"respondWith", "sent", "sendFailed"}
                 /\ req[r].pc # "respondWith" => req'[r].pc = req[r].pc
                 /\ req'[r].response = req[r].response
          /\ req[r].pc = "rejected" => req'[r].pc = "rejected"]_vars

\* one request has been answered with the handler's response and the
\* answer to another, the error handler's response, could not be sent
C39_Witness ==
    \E r1, r2 \in Requests :
        /\ req[r1].pc = "sent"
        /\ req[r1].response = HandlerResponse
        /\ req[r2].pc = "sendFailed"
        /\ req[r2].response = onError(req[r2].raised)
        /\ req[r2].raised # 0

\* C40: when the error handler raises too, no response is sent for the
\* request and nothing else is touched: the connection stays open and
\* tracked as it was, its loop and the accept loops stay where they were,
\* and the other dispatches go on.
C40_ErrorHandlerFailureConfined ==
    /\ [](\A r \in Requests : req[r].pc = "rejected" =>
              req[r].response = 0 /\ req[r].raised # 0)
    /\ [][\A r \in Requests :
              (req[r].pc = "onError" /\ req'[r].pc # "onError"
                                      /\ req'[r].pc # "respondWith") =>
                 /\ req'[r].pc = "rejected"
                 /\ httpConnections' = httpConnections
                 /\ cclosed' = cclosed
                 /\ cstate' = cstate
                 /\ nextReq' = nextReq
                 /\ <<serve, acc, listeners, lres, closed>>'
                       = <<serve, acc, listeners, lres, closed>>
                 /\ \A q \in Requests \ {r} : req'[q] = req[q]]_vars
    /\ [][\A r \in Requests :
              req[r].pc = "rejected" => req'[r] = req[r]]_vars

\* after the error handler raised for one request, a later request of the
\* same connection has been answered, the connection is still open and
\* tracked and the accept loop of its listener awaits the next connection
C40_Witness ==
    \E r1, r2 \in Requests :
        /\ req[r1].pc = "rejected"
        /\ r2 > r1
        /\ req[r2].conn = req[r1].conn
        /\ req[r2].pc = "sent"
        /\ ~cclosed[req[r1].conn]
        /\ req[r1].conn \in httpConnections
        /\ nextReq[req[r1].conn] = Pending
        /\ acc[via[req[r1].conn]] = Pending

(***************************************************************************)
(* Properties of pooledMap                                                 *)
(***************************************************************************)
\* transformations that have been started and have not settled
InFlight == {i \in Tasks : p[i] = "pending"}
Failed == {i \in Tasks : p[i] = "rejected"}
Succeeded == {i \in Tasks : p[i] = "fulfilled"}

\* everything written so far, in order: what was read, then what waits
Events == output \o written
ErrorAt(s) == {k \in 1..Len(s) : s[k].kind = "error"}
CloseAt(s) == {k \in 1..Len(s) : s[k].kind = "close"}
ValuesOf(s) == [k \in 1..Len(s) |-> s[k].val]

RECURSIVE BagOver(_, _)
\* the bag {| Op(i) : i \in S |}, for Op one of Value, Reason
BagOver(S, isValue) ==
    IF S = {} THEN EmptyBag
    ELSE LET i == CHOOSE x \in S : TRUE
         IN SetToBag({IF isValue THEN Value(i) ELSE Reason(i)})
              (+) BagOver(S \ {i}, isValue)

\* the function has returned and the consumer has read what can be read
PoolQuiescent ==
    /\ loop = "done"
    /\ stream # "readable" \/ written = <<>>

\* C5: for every pool limit L >= 1 the number of transformations started
\* and not yet settled never exceeds L.
C5_InFlightWithinLimit ==
    poolLimit >= 1 => Cardinality(InFlight) <= poolLimit

C5_Witness ==
    /\ poolLimit = 2
    /\ Cardinality(InFlight) = 2
    /\ loop = "race"
    /\ nextIdx < Len(array)

\* C6: once any transformation has failed, no further input is pulled from
\* the source and no further transformation is started.
C6_NoStartAfterFailure ==
    [][(poolLimit >= 1 /\ Failed # {}) =>
          /\ nextIdx' = nextIdx
          /\ \A i \in Tasks : p[i] = "unstarted" => p'[i] = "unstarted"]_vars

\* C7: if any transformation fails, the output delivers exactly one
\* aggregate failure, as its last event: nothing follows it, it is not
\* delivered twice, and the sequence does not end normally.
C7_OneAggregateFailureLast ==
    /\ Cardinality(ErrorAt(output)) <= 1
    /\ \A k \in ErrorAt(output) : k = Len(output)
    /\ Failed # {} => CloseAt(Events) = {}
    /\ (PoolQuiescent /\ Failed # {}) =>
           /\ Cardinality(ErrorAt(output)) = 1
           /\ output[Len(output)].kind = "error"

C7_Witness ==
    /\ PoolQuiescent
    /\ Failed # {}
    /\ Succeeded # {}
    /\ Len(output) >= 2
    /\ output[Len(output)].kind = "error"

\* C8: the aggregate failure contains, exactly once each, the failure of
\* every transformation that was started and failed, and nothing else.
C8_AggregateHoldsEveryFailure ==
    \A k \in ErrorAt(Events) :
        SeqToBag(Events[k].errors) = BagOver(Failed, FALSE)

C8_Witness ==
    /\ ErrorAt(output) # {}
    /\ Cardinality(Failed) >= 2
    /\ \E i \in Failed : i \in Range(snapshot) /\ i # snapshot[1]

\* C9: after a failure is detected every transformation already started
\* runs to completion, and the result of each one that succeeds is
\* delivered before the aggregate failure.
C9_InFlightDrainedBeforeFailure ==
    /\ \A k \in ErrorAt(Events) :
          /\ InFlight = {}
          /\ SeqToBag(ValuesOf(SubSeq(Events, 1, k - 1)))
                = BagOver(Succeeded, TRUE)
    /\ \A k \in ErrorAt(output) :
          SeqToBag(ValuesOf(SubSeq(output, 1, k - 1)))
             = BagOver(Succeeded, TRUE)

\* a transformation that was still in the array when the catch block was
\* entered succeeded, and the failure has been delivered
C9_Witness ==
    /\ ErrorAt(output) # {}
    /\ \E i \in Succeeded : i \in Range(snapshot)
    /\ Failed # {}

\* C10: if no transformation fails and the source is finite, the output
\* delivers exactly the results of all inputs, each once, and then ends
\* normally with no aggregate failure; an empty source gives an empty
\* output with no failure.
C10_AllResultsThenEnd ==
    (~srcRaises /\ Failed = {}) =>
        /\ ErrorAt(Events) = {}
        /\ PoolQuiescent =>
              /\ Len(output) = Len(array) + 1
              /\ output[Len(output)] = CloseChunk
              /\ \A k \in 1..Len(array) : output[k].kind = "value"
              /\ SeqToBag(ValuesOf(SubSeq(output, 1, Len(array))))
                    = SeqToBag([k \in 1..Len(array) |-> iteratorFn(array[k])])
              /\ array = <<>> => output = <<CloseChunk>>

C10_Witness ==
    /\ PoolQuiescent
    /\ ~srcRaises
    /\ Failed = {}
    /\ Len(array) = 3
    /\ poolLimit = 2
    /\ output[1].val = iteratorFn(array[2])
    /\ Len(output) = 4

C10_WitnessEmpty ==
    PoolQuiescent /\ ~srcRaises /\ array = <<>> /\ output = <<CloseChunk>>

\* the position of the value event carrying v in s (0 when there is none)
ValueAt(s, v) ==
    IF \E k \in 1..Len(s) : s[k].kind = "value" /\ s[k].val = v
    THEN CHOOSE k \in 1..Len(s) : s[k].kind = "value" /\ s[k].val = v
    ELSE 0

\* C11: successful results are delivered in the order in which their
\* transformations settle, not in input order: when A settles successfully
\* before B, A's result comes before B's in the output.
C11_DeliveredInSettleOrder ==
    \A ka, kb \in 1..Len(settled) :
        LET a == settled[ka]
            b == settled[kb]
        IN (ka < kb /\ a \in Succeeded /\ b \in Succeeded
              /\ ValueAt(Events, Value(b)) # 0)
           => /\ ValueAt(Events, Value(a)) # 0
              /\ ValueAt(Events, Value(a)) < ValueAt(Events, Value(b))

\* the second input settled first and its result was delivered first
C11_Witness ==
    /\ Len(settled) >= 2
    /\ settled[1] = 2
    /\ settled[2] = 1
    /\ {1, 2} \subseteq Succeeded
    /\ Len(output) >= 2
    /\ output[1] = ValueChunk(Value(2))
    /\ output[2] = ValueChunk(Value(1))

\* C25: pooledMap called with a pool limit below 1 is refused: it starts
\* no transformation and delivers no result.
C25_LimitBelowOneRefused ==
    poolLimit < 1 =>
        /\ \A i \in Tasks : p[i] = "unstarted"
        /\ \A k \in 1..Len(output) : output[k].kind # "value"

\* C31 as stated: a handle is in executing exactly from the start of its
\* transformation until it settles, fulfilled or rejected.
C31_HandleInSetUntilSettled ==
    \A i \in Tasks : i \in Range(executing) <=> e[i] = "pending"

\* C31 as amended: a handle is in executing, once, from the start of its
\* transformation on; it is removed when it settles fulfilled, and stays
\* when it settles rejected.
C31_HandleLeavesOnSuccess ==
    /\ \A i \in Tasks :
          i \in Range(executing) <=> e[i] \in {"pending", "rejected"}
    /\ \A j, k \in 1..Len(executing) : executing[j] = executing[k] => j = k
    /\ \A i \in Tasks : p[i] # "unstarted" <=> e[i] # "none"

\* one handle has left on success, one has stayed on failure and one is
\* still pending
C31_Witness ==
    \E i, j, k \in Tasks :
        /\ e[i] = "fulfilled" /\ i \notin Range(executing)
        /\ e[j] = "rejected" /\ j \in Range(executing)
        /\ e[k] = "pending" /\ k \in Range(executing)

\* C35: for every limit L >= 1 and every completion order, when the
\* transformations all settle and the consumer keeps reading, the output
\* sequence eventually terminates: normally when nothing failed, with the
\* aggregate failure otherwise.
C35_OutputTerminates ==
    /\ (poolLimit >= 1) ~> (stream # "readable")
    /\ [](poolLimit >= 1 =>
            /\ stream = "closed" => ~srcRaises /\ Failed = {}
            /\ stream = "errored" => srcRaises \/ Failed # {}
            /\ stream # "readable" =>
                   /\ InFlight = {}
                   /\ output[Len(output)].kind = (IF stream = "closed"
                                                  THEN "close" ELSE "error"))

\* the output has ended with the aggregate failure after a value, with a
\* limit above one and a source that did not raise
C35_Witness ==
    /\ poolLimit >= 2
    /\ ~srcRaises
    /\ stream = "errored"
    /\ Succeeded # {}
    /\ Len(output) >= 2

\* C36: when the source itself raises, no further item is pulled, the
\* transformations in flight are left to settle, and the output ends with
\* one aggregate failure that holds the failures of the transformations
\* and nothing else, possibly none at all.
C36_SourceFailureEndsOutput ==
    /\ [](srcRaises =>
            /\ CloseAt(Events) = {}
            /\ \A k \in ErrorAt(Events) :
                   /\ k = Len(Events)
                   /\ InFlight = {}
                   /\ SeqToBag(Events[k].errors) = BagOver(Failed, FALSE)
            /\ loop = "done" => Cardinality(ErrorAt(Events)) = 1)
    /\ [][srcRaises /\ loop \in {"allSettled", "done"} =>
              /\ nextIdx' = nextIdx
              /\ \A i \in Tasks : p[i] = "unstarted" => p'[i] = "unstarted"]_vars

\* the source has raised after transformations that all succeeded, two
\* of them at least, and the output has ended with an empty aggregate
C36_Witness ==
    /\ srcRaises
    /\ stream = "errored"
    /\ Cardinality(Succeeded) >= 2
    /\ output[Len(output)] = AggregateError(<<>>)

(***************************************************************************)
(* Properties of deferred                                                  *)
(***************************************************************************)
\* C17: the state of a deferred leaves pending exactly once, to fulfilled
\* or to rejected, and a resolve or reject call made after it has settled
\* leaves its state and its outcome unchanged.
C17_SettlesOnce ==
    [][/\ promise.state # "pending" => promise'.state = promise.state
       /\ (/\ promise.state # "pending"
           /\ dcalls' = dcalls + 1
           /\ dresolving' = dresolving) => promise' = promise
       /\ (/\ dresolving # <<>>
           /\ dresolving' = Tail(dresolving)
           /\ Head(dresolving).late) => promise' = promise]_vars

\* a resolve call made while the deferred was pending has not passed its
\* await
ResolveUnderWay ==
    \/ \E k \in 1..Len(dresolving) : ~dresolving[k].late
    \/ \E k \in 1..Len(dawaiting) : ~dawaiting[k].late

\* C34: resolve(v) called on a pending deferred eventually makes its state
\* fulfilled, which wakes its waiters; when v is awaitable the state does
\* not change before v has settled.
C34_ResolveEventuallyFulfils ==
    /\ ResolveUnderWay ~> promise.state = "fulfilled"
    /\ [][(dawaiting' = dawaiting /\ dresolving' = dresolving /\ dcalls' = dcalls)
              => promise' = promise]_vars

(***************************************************************************)
(* Properties of MuxAsyncIterator                                          *)
(***************************************************************************)
\* the k-th value of source s has been delivered to the consumer
Delivered(s, k) ==
    \E j \in 1..Len(received) : received[j] = ValueEvent(SourceValue(s, k))

ValueEventsAt == {j \in 1..Len(received) : received[j].kind = "value"}
ErrorEventsAt == {j \in 1..Len(received) : received[j].kind = "error"}

\* the source and the rank of a delivered value
SourceOf(v) == v \div 10
RankOf(v) == v % 10

Registered == {s \in Sources : sstate[s] # "unadded"}
AllExhausted == \A s \in Sources : sstate[s] \in {"unadded", "done"}

\* nothing is left to run although the consumer keeps pulling: no next()
\* of a source is outstanding, no resolve is in flight, and the generator
\* sleeps on a pending signal or has ended and the consumer knows
MuxIdle ==
    /\ \A s \in Sources : sstate[s] # "pulling"
    /\ ~resolving
    /\ \/ gen = "returned"
       \/ gen = "awaitSignal" /\ signal.status = "pending"
       \/ gen = "threw" /\ received[Len(received)] = DoneEvent

\* C12: with sources that do not fail and a consumer that keeps pulling,
\* the combined output is an interleaving of the sources' sequences: every
\* value of every source appears exactly once, nothing else appears, and
\* the values of one source keep their order.
C12_InterleavingOfSources ==
    (\A s \in Sources : sstate[s] # "failed") =>
        /\ \A j \in ValueEventsAt :
              /\ SourceOf(received[j].val) \in Registered
              /\ RankOf(received[j].val)
                    \in 1..produced[SourceOf(received[j].val)]
        /\ \A j, k \in ValueEventsAt :
              j < k =>
                 /\ received[j].val # received[k].val
                 /\ SourceOf(received[j].val) = SourceOf(received[k].val)
                       => RankOf(received[j].val) < RankOf(received[k].val)
        /\ ErrorEventsAt = {}
        /\ MuxIdle =>
              /\ gen = "returned"
              /\ \A s \in Registered :
                    \A k \in 1..produced[s] : Delivered(s, k)

\* two sources were drained, and the first value delivered was one of the
\* source registered second
C12_Witness ==
    /\ gen = "returned"
    /\ produced[1] = 2
    /\ produced[2] = 1
    /\ Len(received) = 4
    /\ received[1] = ValueEvent(SourceValue(2, 1))
    /\ received[4] = DoneEvent

\* C13: the combined sequence ends without error exactly when every
\* registered source is exhausted and no value is queued: it does not end
\* while a source is active or a value queued, it ends at once when no
\* source is registered, and with a consumer that keeps pulling it ends
\* once all sources have ended.
C13_EndsWhenAllExhausted ==
    /\ [][(gen # "returned" /\ gen' = "returned") =>
             /\ AllExhausted'
             /\ iteratorCount' = 0
             /\ yields' = <<>>
             /\ received' = Append(received, DoneEvent)]_vars
    /\ [][(gen = "suspendedStart" /\ gen' # gen /\ Registered = {}) =>
             /\ gen' = "returned"
             /\ received' = <<DoneEvent>>]_vars
    /\ AllExhausted ~> (gen = "returned" \/ ~AllExhausted)

\* the sequence ended after two sources had been drained
C13_Witness ==
    /\ gen = "returned"
    /\ Cardinality(Registered) = 2
    /\ \A s \in Registered : sstate[s] = "done" /\ produced[s] >= 1
    /\ received[Len(received)] = DoneEvent

\* the sequence of a multiplexer without sources
C13_WitnessNoSource ==
    gen = "returned" /\ Registered = {} /\ received = <<DoneEvent>>

\* the combined sequence has come to its end, with or without a failure
MuxTerminated == gen \in {"returned", "threw"}

\* C14: a source registered while the combined sequence is being iterated
\* has all of its values delivered before the combined sequence
\* terminates.
C14_LateSourceDelivered ==
    MuxTerminated =>
        \A s \in Sources :
            addedAt[s] = "during" =>
                /\ sstate[s] \in {"done", "failed"}
                /\ \A k \in 1..produced[s] : Delivered(s, k)

\* C15: when several failures have accumulated in one cycle, each of them
\* is raised to the consumer; the loop does not stop after the first.
C15_EveryAccumulatedFailureRaised ==
    (gen = "threw" /\ received[Len(received)] = DoneEvent) =>
        \A k \in 1..accumulated :
            \E j \in ErrorEventsAt : received[j] = ErrorEvent(throws[k])

\* C16: a failure of one source does not stop the others: after it has
\* been raised the remaining sources are still pulled and their later
\* values still delivered.
C16_FailureDoesNotStopOthers ==
    (MuxIdle /\ ErrorEventsAt # {}) =>
        \A s \in Registered :
            sstate[s] # "failed" =>
                /\ sstate[s] = "done"
                /\ \A k \in 1..produced[s] : Delivered(s, k)

\* the entries of yields whose yield has not been followed by the pull
\* that iterate() issues after it
PendingEntries(s) ==
    {k \in 1..Len(yields) :
        /\ yields[k].iterator = s
        /\ \/ k > idx
           \/ k = idx /\ gen = "suspendedYield"}

\* the generator resumes after a yield: callIteratorNext(iterator)
PullIssued ==
    /\ gen = "suspendedYield"
    /\ <<gen, idx>>' # <<gen, idx>>

\* C32: every registered source has at most one outstanding pull at every
\* moment, sources added during the iteration included: a source being
\* pulled has no value waiting in the queue, a source has at most one
\* value waiting, and a pull is issued only to a source no pull is
\* outstanding on.
C32_OnePullPerSource ==
    /\ [](\A s \in Sources :
            /\ Cardinality(PendingEntries(s)) <= 1
            /\ sstate[s] = "pulling" => PendingEntries(s) = {}
            /\ sstate[s] = "queued" <=> PendingEntries(s) # {})
    /\ [][PullIssued => sstate[yields[idx].iterator] = "queued"]_vars

\* a source added during the iteration is pulled again after its first
\* value, while another source has a value waiting
C32_Witness ==
    \E s, t \in Sources :
        /\ addedAt[s] = "during"
        /\ produced[s] >= 1
        /\ sstate[s] = "pulling"
        /\ sstate[t] = "queued"

\* the registered sources whose pull has not reported done
NotExhausted == {s \in Registered : sstate[s] # "done"}

\* C33: the active-source count goes up by one with every add and down by
\* one when the pull of a source reports exhaustion, once per source and
\* at no other time; it is never negative and always equals the number of
\* registered sources that have not reported exhaustion.
C33_CountIsUnexhaustedSources ==
    /\ [](iteratorCount >= 0 /\ iteratorCount = Cardinality(NotExhausted))
    /\ [][/\ iteratorCount' = iteratorCount + 1 <=>
              \E s \in Sources : sstate[s] = "unadded" /\ sstate'[s] # "unadded"
          /\ iteratorCount' = iteratorCount - 1 <=>
              \E s \in Sources : sstate[s] # "done" /\ sstate'[s] = "done"
          /\ iteratorCount' \in {iteratorCount - 1, iteratorCount,
                                 iteratorCount + 1}
          /\ \A s \in Sources : sstate[s] = "done" => sstate'[s] = "done"]_vars

\* one source has failed, one is exhausted and one is still pulled
C33_Witness ==
    \E s, t, u \in Sources :
        /\ sstate[s] = "failed"
        /\ sstate[t] = "done"
        /\ sstate[u] = "pulling"
        /\ iteratorCount = 2

\* C37: no wakeup is lost: while the loop sleeps on the signal with a
\* value queued or a failure accumulated, that signal is resolved or its
\* resolution is under way; and the queue is only cleared, and the signal
\* only replaced, when every queued value has been delivered.
C37_NoLostWakeup ==
    /\ []((gen = "awaitSignal" /\ (yields # <<>> \/ throws # <<>>)) =>
             (resolving \/ signal.status = "fulfilled"))
    /\ [][(Len(yields') < Len(yields)
              \/ (signal'.status = "pending" /\ signal.status # "pending")) =>
             \A k \in 1..Len(yields) :
                 \E j \in 1..Len(received) :
                     received[j] = ValueEvent(yields[k].value)]_vars

\* after a first cycle, the loop sleeps on a fresh signal while a value
\* has been queued and the resolution of the signal is under way
C37_Witness ==
    /\ gen = "awaitSignal"
    /\ received # <<>>
    /\ yields # <<>>
    /\ signal.status = "pending"
    /\ resolving

=============================================================================
